---------------------------- MODULE Spec2Model ----------------------------
(***************************************************************************)
(* Glucoscillator: the LibreView CSV parser (src/src/parser/libreview.ts)  *)
(* and the wavetable generator (src/unnamed/part_000, lines 148-335).      *)
(*                                                                         *)
(* Numbers.  A JavaScript number is modelled as an exact rational          *)
(* [n |-> numerator, d |-> denominator] in lowest terms with d > 0, or as  *)
(* Infinity [n |-> 1, d |-> 0], -Infinity [n |-> -1, d |-> 0] or NaN       *)
(* [n |-> 0, d |-> 0]; the rounding of IEEE doubles and of Float32Array    *)
(* cells, and the sign of zero, are not modelled.                          *)
(* Strings are TLA+ strings, read one character at a time with SubSeq.     *)
(* A Date is the number of seconds of local wall-clock time since          *)
(* 1970-01-01 00:00:00 (a local zone with a fixed offset, no DST).         *)
(***************************************************************************)
EXTENDS Integers, Sequences, FiniteSets, TLC

(***************************************************************************)
(* Numbers: exact rationals with Infinity, -Infinity and NaN               *)
(***************************************************************************)
Abs(x) == IF x < 0 THEN -x ELSE x

RECURSIVE GCD(_, _)
GCD(a, b) == IF b = 0 THEN a ELSE GCD(b, a % b)

\* The rational n/d (d # 0) in lowest terms, d > 0.
Lowest(n, d, g) ==
  IF d < 0 THEN [n |-> -(n \div g), d |-> -(d \div g)] ELSE [n |-> n \div g, d |-> d \div g]
Rat(n, d) == Lowest(n, d, GCD(Abs(n), Abs(d)))

RInt(k) == [n |-> k, d |-> 1]
Zero == RInt(0)
One == RInt(1)
NaN == [n |-> 0, d |-> 0]
PosInfinity == [n |-> 1, d |-> 0]
NegInfinity == [n |-> -1, d |-> 0]
isNaN(x) == x = NaN
Sign(x) == IF x.n > 0 THEN 1 ELSE IF x.n < 0 THEN -1 ELSE 0
\* Infinity with the given sign; NaN for the sign 0.
InfinityOf(sign) == [n |-> sign, d |-> 0]

\* x + y
AddOver(x, y, g) == Rat(x.n * (y.d \div g) + y.n * (x.d \div g), (x.d \div g) * y.d)
RAdd(x, y) ==
  IF x.d # 0 /\ y.d # 0
  THEN IF x.d = y.d THEN Rat(x.n + y.n, x.d) ELSE AddOver(x, y, GCD(x.d, y.d))
  ELSE IF isNaN(x) \/ isNaN(y) THEN NaN
  ELSE IF x.d = 0 /\ y.d = 0 THEN (IF x.n = y.n THEN x ELSE NaN)
  ELSE IF x.d = 0 THEN x ELSE y

RNeg(x) == [n |-> -x.n, d |-> x.d]
\* x - y
RSub(x, y) == RAdd(x, RNeg(y))

\* x * y; the finite product cancels crosswise, so that the factors stay small.
MulOver(x, y, g1, g2) ==
  [n |-> (x.n \div g1) * (y.n \div g2), d |-> (x.d \div g2) * (y.d \div g1)]
RMul(x, y) ==
  IF x.d # 0 /\ y.d # 0
  THEN IF x.n = 0 \/ y.n = 0 THEN Zero
       ELSE MulOver(x, y, GCD(Abs(x.n), y.d), GCD(Abs(y.n), x.d))
  ELSE InfinityOf(Sign(x) * Sign(y))

\* x / y
RDiv(x, y) ==
  IF isNaN(x) \/ isNaN(y) THEN NaN
  ELSE IF y.d = 0 THEN (IF x.d = 0 THEN NaN ELSE Zero)
  ELSE IF y.n = 0 THEN InfinityOf(Sign(x))
  ELSE IF x.d = 0 THEN InfinityOf(Sign(x) * Sign(y))
  ELSE RMul(x, IF y.n < 0 THEN [n |-> -y.d, d |-> -y.n] ELSE [n |-> y.d, d |-> y.n])

\* x <= y: false when either is NaN.
LeOver(x, y, g) == x.n * (y.d \div g) <= y.n * (x.d \div g)
RLe(x, y) ==
  IF x.d # 0 /\ y.d # 0
  THEN IF x.d = y.d THEN x.n <= y.n ELSE LeOver(x, y, GCD(x.d, y.d))
  ELSE IF isNaN(x) \/ isNaN(y) THEN FALSE
  ELSE IF x.d = 0 /\ y.d = 0 THEN x.n <= y.n
  ELSE IF x.d = 0 THEN x.n < 0 ELSE y.n > 0
RLt(x, y) == RLe(x, y) /\ x # y
\* Math.min(x, y) and Math.max(x, y): NaN when either is NaN.
RMin(x, y) == IF isNaN(x) \/ isNaN(y) THEN NaN ELSE IF RLe(x, y) THEN x ELSE y
RMax(x, y) == IF isNaN(x) \/ isNaN(y) THEN NaN ELSE IF RLe(x, y) THEN y ELSE x

\* Math.min(...values) and Math.max(...values) of a non-empty array, by halves.
RECURSIVE MinOver(_, _, _)
MinOver(values, lo, hi) ==
  IF lo = hi THEN values[lo]
  ELSE RMin(MinOver(values, lo, (lo + hi) \div 2), MinOver(values, ((lo + hi) \div 2) + 1, hi))
MathMin(values) == MinOver(values, 1, Len(values))
RECURSIVE MaxOver(_, _, _)
MaxOver(values, lo, hi) ==
  IF lo = hi THEN values[lo]
  ELSE RMax(MaxOver(values, lo, (lo + hi) \div 2), MaxOver(values, ((lo + hi) \div 2) + 1, hi))
MathMax(values) == MaxOver(values, 1, Len(values))

(***************************************************************************)
(* Strings (String.prototype.trim, toLowerCase, includes, split, padStart) *)
(***************************************************************************)
\* s[i] (1-based); the empty string past either end.
Char(s, i) == IF 1 <= i /\ i <= Len(s) THEN SubSeq(s, i, i) ELSE ""

IsWhitespace(c) == c \in {" ", "\t", "\n", "\r"}
IsDigit(c) == c \in {"0", "1", "2", "3", "4", "5", "6", "7", "8", "9"}

\* The positions of s that hold no white space.
InkPositions(s) == { i \in 1..Len(s) : ~IsWhitespace(Char(s, i)) }
SetMin(S) == CHOOSE a \in S : \A b \in S : a <= b
SetMax(S) == CHOOSE a \in S : \A b \in S : a >= b
TrimStart(s) ==
  IF InkPositions(s) = {} THEN "" ELSE SubSeq(s, SetMin(InkPositions(s)), Len(s))
TrimEnd(s) ==
  IF InkPositions(s) = {} THEN "" ELSE SubSeq(s, 1, SetMax(InkPositions(s)))
trim(s) == TrimEnd(TrimStart(s))

UpperLetters == "ABCDEFGHIJKLMNOPQRSTUVWXYZ"
LowerLetters == "abcdefghijklmnopqrstuvwxyz"
LowerChar(c) ==
  IF \E i \in 1..26 : Char(UpperLetters, i) = c
  THEN Char(LowerLetters, CHOOSE i \in 1..26 : Char(UpperLetters, i) = c)
  ELSE c
RECURSIVE LowerFrom(_, _, _)
LowerFrom(s, lo, hi) ==
  IF lo > hi THEN ""
  ELSE IF lo = hi THEN LowerChar(Char(s, lo))
  ELSE LowerFrom(s, lo, (lo + hi) \div 2) \o LowerFrom(s, ((lo + hi) \div 2) + 1, hi)
toLowerCase(s) == LowerFrom(s, 1, Len(s))

includes(s, sub) ==
  \E i \in 1..(Len(s) - Len(sub) + 1) : SubSeq(s, i, i + Len(sub) - 1) = sub

\* The elements of a finite set of integers in increasing order.
SortedSeq(S) ==
  [k \in 1..Cardinality(S) |-> CHOOSE a \in S : Cardinality({ b \in S : b < a }) = k - 1]

\* s.split(/\r?\n/): the pieces between the line breaks, a "\r" right before
\* a "\n" being part of the break.  breaks holds the positions of the "\n".
SplitAt(s, breaks) ==
  [k \in 1..(Len(breaks) + 1) |->
     SubSeq(s, IF k = 1 THEN 1 ELSE breaks[k - 1] + 1,
               IF k = Len(breaks) + 1 THEN Len(s)
               ELSE IF Char(s, breaks[k] - 1) = "\r" THEN breaks[k] - 2
               ELSE breaks[k] - 1)]
SplitLines(s) == SplitAt(s, SortedSeq({ i \in 1..Len(s) : Char(s, i) = "\n" }))

\* headers.join(' ')
RECURSIVE JoinWith(_, _)
JoinWith(strs, sep) ==
  IF Len(strs) = 0 THEN ""
  ELSE IF Len(strs) = 1 THEN strs[1]
  ELSE strs[1] \o sep \o JoinWith(Tail(strs), sep)

DigitChars == "0123456789"
DigitValue(c) == (CHOOSE i \in 1..10 : Char(DigitChars, i) = c) - 1

\* parseInt of a string of decimal digits.
RECURSIVE parseInt(_)
parseInt(s) ==
  IF s = "" THEN 0
  ELSE parseInt(SubSeq(s, 1, Len(s) - 1)) * 10 + DigitValue(Char(s, Len(s)))

\* String(n) for n >= 0.
RECURSIVE NumberToString(_)
NumberToString(n) ==
  IF n < 10 THEN Char(DigitChars, n + 1)
  ELSE NumberToString(n \div 10) \o Char(DigitChars, (n % 10) + 1)

\* s.padStart(2, '0')
PadStart2(s) == IF Len(s) < 2 THEN SubSeq("00", 1, 2 - Len(s)) \o s ELSE s

RECURSIVE Pow10(_)
Pow10(k) == IF k = 0 THEN 1 ELSE 10 * Pow10(k - 1)

\* The length of the run of decimal digits of s that starts at position i.
RECURSIVE DigitRun(_, _)
DigitRun(s, i) ==
  IF i <= Len(s) /\ IsDigit(Char(s, i)) THEN 1 + DigitRun(s, i + 1) ELSE 0

\* Whether s holds sub at position i.
HasAt(s, i, sub) == i + Len(sub) - 1 <= Len(s) /\ SubSeq(s, i, i + Len(sub) - 1) = sub

\* parseFloat: the longest prefix [+-]Infinity or
\* [+-]digits[.digits][(e|E)[+-]digits] after leading white space; NaN when
\* there is none.  signLen, intLen, fracLen and expLen are the lengths of the
\* sign, the digits before and after the point, and the exponent's digits;
\* expAt is the position of the e.
Mantissa(s, signLen, intLen, fracLen) ==
  Rat((IF Char(s, 1) = "-" THEN -1 ELSE 1)
        * (parseInt(SubSeq(s, signLen + 1, signLen + intLen)) * Pow10(fracLen)
           + parseInt(SubSeq(s, signLen + intLen + 2, signLen + intLen + 1 + fracLen))),
      Pow10(fracLen))
Scaled(mantissa, negative, exponent) ==
  IF negative THEN RDiv(mantissa, RInt(Pow10(exponent)))
  ELSE RMul(mantissa, RInt(Pow10(exponent)))
ParseFloatExponent(s, mantissa, expAt, expSignLen, expLen) ==
  IF Char(s, expAt) \in {"e", "E"} /\ expLen > 0
  THEN Scaled(mantissa, Char(s, expAt + 1) = "-",
              parseInt(SubSeq(s, expAt + expSignLen + 1, expAt + expSignLen + expLen)))
  ELSE mantissa
ParseFloatExponentSign(s, mantissa, expAt, expSignLen) ==
  ParseFloatExponent(s, mantissa, expAt, expSignLen, DigitRun(s, expAt + expSignLen + 1))
ParseFloatMantissa(s, mantissa, expAt) ==
  ParseFloatExponentSign(s, mantissa, expAt,
                         IF Char(s, expAt + 1) \in {"+", "-"} THEN 1 ELSE 0)
ParseFloatParts(s, signLen, intLen, pointLen, fracLen) ==
  IF intLen = 0 /\ fracLen = 0 THEN NaN
  ELSE ParseFloatMantissa(s, Mantissa(s, signLen, intLen, fracLen),
                          signLen + intLen + pointLen + fracLen + 1)
ParseFloatPoint(s, signLen, intLen, pointLen) ==
  ParseFloatParts(s, signLen, intLen, pointLen,
                  IF pointLen = 1 THEN DigitRun(s, signLen + intLen + 2) ELSE 0)
ParseFloatFraction(s, signLen, intLen) ==
  ParseFloatPoint(s, signLen, intLen, IF Char(s, signLen + intLen + 1) = "." THEN 1 ELSE 0)
ParseFloatInteger(s, signLen) ==
  IF HasAt(s, signLen + 1, "Infinity")
  THEN (IF Char(s, 1) = "-" THEN NegInfinity ELSE PosInfinity)
  ELSE ParseFloatFraction(s, signLen, DigitRun(s, signLen + 1))
ParseFloatSign(s) == ParseFloatInteger(s, IF Char(s, 1) \in {"+", "-"} THEN 1 ELSE 0)
parseFloat(str) == ParseFloatSign(TrimStart(str))

(***************************************************************************)
(* Date: new Date(y, m, d, h, min), getFullYear, getMonth, getDate         *)
(***************************************************************************)
\* Days from 1970-01-01 to the civil date y-m-d (m in 1..12), proleptic
\* Gregorian: years run from March, in eras of 400 years.
DayOfEra(yoe, mp, d) ==
  yoe * 365 + (yoe \div 4) - (yoe \div 100) + ((153 * mp + 2) \div 5) + d - 1
DaysFromMarchYear(yy, mp, d) ==
  (yy \div 400) * 146097 + DayOfEra(yy % 400, mp, d) - 719468
DaysFromCivil(y, m, d) ==
  DaysFromMarchYear(IF m <= 2 THEN y - 1 ELSE y, IF m > 2 THEN m - 3 ELSE m + 9, d)

\* The civil date of day number z.
CivilOfMonth(yearOfMarch, mp, doy) ==
  [year |-> yearOfMarch + (IF mp >= 10 THEN 1 ELSE 0),
   month |-> IF mp < 10 THEN mp + 3 ELSE mp - 9,
   day |-> doy - ((153 * mp + 2) \div 5) + 1]
CivilOfDayOfYear(yearOfMarch, doy) == CivilOfMonth(yearOfMarch, (5 * doy + 2) \div 153, doy)
CivilOfYearOfEra(era, doe, yoe) ==
  CivilOfDayOfYear(yoe + era * 400, doe - (365 * yoe + (yoe \div 4) - (yoe \div 100)))
CivilOfDayOfEra(era, doe) ==
  CivilOfYearOfEra(era, doe,
    (doe - (doe \div 1460) + (doe \div 36524) - (doe \div 146096)) \div 365)
CivilFromDays(z) == CivilOfDayOfEra((z + 719468) \div 146097, (z + 719468) % 146097)

\* new Date(year, month, day, hour, minute): month is 0-based; out-of-range
\* fields carry into the next unit; a year in 0..99 means 1900 + year.
NewDateOfFullYear(fullYear, month, day, hour, minute) ==
  ((DaysFromCivil(fullYear + (month \div 12), (month % 12) + 1, 1) + day - 1) * 1440
     + hour * 60 + minute) * 60
NewDate(year, month, day, hour, minute) ==
  NewDateOfFullYear(IF 0 <= year /\ year <= 99 THEN 1900 + year ELSE year,
                    month, day, hour, minute)

getFullYear(date) == CivilFromDays(date \div 86400).year
\* 0-based, as Date.prototype.getMonth
getMonth(date) == CivilFromDays(date \div 86400).month - 1
getDate(date) == CivilFromDays(date \div 86400).day
getTime(date) == date

(***************************************************************************)
(* parseTimestamp (libreview.ts 204-259)                                   *)
(***************************************************************************)
IsDateSep(c) == c \in {"-", "/", "."}

RECURSIVE WhitespaceRun(_, _)
WhitespaceRun(s, i) ==
  IF i <= Len(s) /\ IsWhitespace(Char(s, i)) THEN 1 + WhitespaceRun(s, i + 1) ELSE 0

\* How (\d{1,4})[-\/.](\d{1,2})[-\/.](\d{1,4})\s+(\d{1,2}):(\d{2}) matches at
\* position s.  Each group is followed by a character that is no digit, and
\* the white space by a digit, so a greedy group can only be the whole run
\* of digits (or white space) found there: the match at s is unique.  The
\* optional seconds group never decides a match and is not captured.
\* l1, l2, l3, l4 are the lengths of the date groups and the hour, w that of
\* the white space.
TimestampGroups(str, s, l1, l2, l3, w, l4) ==
  IF /\ l1 \in 1..4 /\ IsDateSep(Char(str, s + l1))
     /\ l2 \in 1..2 /\ IsDateSep(Char(str, s + l1 + 1 + l2))
     /\ l3 \in 1..4 /\ w >= 1
     /\ l4 \in 1..2 /\ Char(str, s + l1 + l2 + l3 + w + l4 + 2) = ":"
     /\ DigitRun(str, s + l1 + l2 + l3 + w + l4 + 3) >= 2
  THEN [found |-> TRUE,
        p1 |-> SubSeq(str, s, s + l1 - 1),
        p2 |-> SubSeq(str, s + l1 + 1, s + l1 + l2),
        p3 |-> SubSeq(str, s + l1 + l2 + 2, s + l1 + l2 + l3 + 1),
        hour |-> SubSeq(str, s + l1 + l2 + l3 + w + 2, s + l1 + l2 + l3 + w + l4 + 1),
        minute |-> SubSeq(str, s + l1 + l2 + l3 + w + l4 + 3,
                          s + l1 + l2 + l3 + w + l4 + 4)]
  ELSE [found |-> FALSE]
TimestampHour(str, s, l1, l2, l3, w) ==
  TimestampGroups(str, s, l1, l2, l3, w, DigitRun(str, s + l1 + l2 + l3 + w + 2))
TimestampSpace(str, s, l1, l2, l3) ==
  TimestampHour(str, s, l1, l2, l3, WhitespaceRun(str, s + l1 + l2 + l3 + 2))
TimestampThird(str, s, l1, l2) ==
  TimestampSpace(str, s, l1, l2, DigitRun(str, s + l1 + l2 + 2))
TimestampSecond(str, s, l1) == TimestampThird(str, s, l1, DigitRun(str, s + l1 + 1))
TimestampMatchAt(str, s) == TimestampSecond(str, s, DigitRun(str, s))

\* str.match(...): the leftmost match.
FirstFound(matches) ==
  IF \E s \in 1..Len(matches) : matches[s].found
  THEN matches[SetMin({ s \in 1..Len(matches) : matches[s].found })]
  ELSE [found |-> FALSE]
TimestampMatch(str) == FirstFound([s \in 1..Len(str) |-> TimestampMatchAt(str, s)])

\* The year, month (0-based) and day chosen from the three date groups, of
\* lengths len1 and len3 and values n1, n2, n3.
\* A faulty variant: month first when both n1 and n2 are at most 12.
ChooseDateParts_MonthFirst(len1, len3, n1, n2, n3) ==
  IF len1 = 4 THEN [year |-> n1, month |-> n2 - 1, day |-> n3]
  ELSE IF len3 = 4
  THEN IF n1 > 12 THEN [year |-> n3, month |-> n2 - 1, day |-> n1]
       ELSE [year |-> n3, month |-> n1 - 1, day |-> n2]
  ELSE [year |-> 2000 + n1, month |-> n2 - 1, day |-> n3]

ChooseDateParts(len1, len3, n1, n2, n3) ==
  IF len1 = 4
  THEN \* YYYY-MM-DD
       [year |-> n1, month |-> n2 - 1, day |-> n3]
  ELSE IF len3 = 4
  THEN \* DD-MM-YYYY or MM-DD-YYYY
       IF n1 > 12 THEN [year |-> n3, month |-> n2 - 1, day |-> n1]
       ELSE IF n2 > 12 THEN [year |-> n3, month |-> n1 - 1, day |-> n2]
       ELSE [year |-> n3, month |-> n2 - 1, day |-> n1]
  ELSE \* YY-MM-DD
       [year |-> 2000 + n1, month |-> n2 - 1, day |-> n3]

ResolveDateParts(p1, p2, p3) ==
  ChooseDateParts(Len(p1), Len(p3), parseInt(p1), parseInt(p2), parseInt(p3))

\* new Date(str) of the fallback, for the one form every engine reads alike:
\* YYYY-MM-DDTHH:mm[:ss] with fields in range, taken as local time.  What
\* other strings give is implementation-defined; here they are invalid dates.
AllDigits(s) == Len(s) > 0 /\ DigitRun(s, 1) = Len(s)
IsLeapYear(y) == (y % 4 = 0 /\ y % 100 # 0) \/ y % 400 = 0
DaysInMonth(y, m) ==
  IF m = 2 THEN (IF IsLeapYear(y) THEN 29 ELSE 28)
  ELSE IF m \in {4, 6, 9, 11} THEN 30 ELSE 31
NativeDateFields(y, m, d, h, mi, sec) ==
  IF m \in 1..12 /\ d \in 1..DaysInMonth(y, m) /\ h <= 23 /\ mi <= 59 /\ sec <= 59
  THEN [isNull |-> FALSE, time |-> (DaysFromCivil(y, m, d) * 1440 + h * 60 + mi) * 60 + sec]
  ELSE [isNull |-> TRUE, time |-> 0]
NativeDateParse(str) ==
  IF /\ Len(str) \in {16, 19}
     /\ AllDigits(SubSeq(str, 1, 4)) /\ Char(str, 5) = "-"
     /\ AllDigits(SubSeq(str, 6, 7)) /\ Char(str, 8) = "-"
     /\ AllDigits(SubSeq(str, 9, 10)) /\ Char(str, 11) = "T"
     /\ AllDigits(SubSeq(str, 12, 13)) /\ Char(str, 14) = ":"
     /\ AllDigits(SubSeq(str, 15, 16))
     /\ (Len(str) = 19 => Char(str, 17) = ":" /\ AllDigits(SubSeq(str, 18, 19)))
  THEN NativeDateFields(parseInt(SubSeq(str, 1, 4)), parseInt(SubSeq(str, 6, 7)),
                        parseInt(SubSeq(str, 9, 10)), parseInt(SubSeq(str, 12, 13)),
                        parseInt(SubSeq(str, 15, 16)),
                        IF Len(str) = 19 THEN parseInt(SubSeq(str, 18, 19)) ELSE 0)
  ELSE [isNull |-> TRUE, time |-> 0]

\* The Date of a match: new Date(year, month, day, parseInt(hour), parseInt(minute)).
DateOfParts(ymd, hour, minute) ==
  [isNull |-> FALSE,
   time |-> NewDate(ymd.year, ymd.month, ymd.day, parseInt(hour), parseInt(minute))]
DateOfMatch(str, parts) ==
  IF parts.found
  THEN DateOfParts(ResolveDateParts(parts.p1, parts.p2, parts.p3), parts.hour, parts.minute)
  ELSE NativeDateParse(str)

\* A Date, or null.
parseTimestamp(str) ==
  IF str = "" THEN [isNull |-> TRUE, time |-> 0] ELSE DateOfMatch(str, TimestampMatch(str))

(***************************************************************************)
(* Wavetable generation (src/unnamed/part_000)                             *)
(***************************************************************************)
WAVETABLE_SIZE == 2048

\* GLUCOSE_RANGE.absolute of types.ts
ABSOLUTE_MIN == 40
ABSOLUTE_MAX == 400

\* new Float32Array(size).fill(0)
ZeroArray(size) == [i \in 1..size |-> Zero]

\* Uses the day's own min/max; a flat day maps to zeros.
NormalizeWithin(values, min, range) ==
  IF range = Zero THEN ZeroArray(Len(values))
  ELSE [i \in 1..Len(values) |->
          RSub(RMul(RDiv(RSub(values[i], min), range), RInt(2)), One)]
normalizeGlucoseValues(values) ==
  IF Len(values) = 0 THEN << >>
  ELSE NormalizeWithin(values, MathMin(values), RSub(MathMax(values), MathMin(values)))

\* Clamps to the fixed physiological range, then maps it to [-1, 1].
NormalizeClamped(clamped, min, range) ==
  RSub(RMul(RDiv(RSub(clamped, min), range), RInt(2)), One)
normalizeToPhysiologicalRange(values) ==
  [i \in 1..Len(values) |->
     NormalizeClamped(RMax(RInt(ABSOLUTE_MIN), RMin(RInt(ABSOLUTE_MAX), values[i])),
                      RInt(ABSOLUTE_MIN), RInt(ABSOLUTE_MAX - ABSOLUTE_MIN))]

\* Linear interpolation at srcIndex = i * (length / targetSize), i 0-based:
\* srcIndexFloor is its integer part and fraction the rest.  Arrays are
\* 0-based in the source and 1-based here.
Interpolate(values, srcIndexFloor, srcIndexCeil, fraction) ==
  RAdd(RMul(values[srcIndexFloor + 1], RSub(One, fraction)),
       RMul(values[srcIndexCeil + 1], fraction))
InterpolateAt(values, srcIndexFloor, fraction) ==
  Interpolate(values, srcIndexFloor,
              IF srcIndexFloor + 1 < Len(values) - 1 THEN srcIndexFloor + 1
              ELSE Len(values) - 1,
              fraction)
\* A faulty variant: an array at least as long as the target is returned as it is.
resampleToWavetableSize_KeepsLonger(values, targetSize) ==
  IF Len(values) = 0 THEN ZeroArray(targetSize)
  ELSE IF Len(values) >= targetSize THEN values
  ELSE [k \in 1..targetSize |->
          InterpolateAt(values, ((k - 1) * Len(values)) \div targetSize,
                        Rat(((k - 1) * Len(values)) % targetSize, targetSize))]

resampleToWavetableSize(values, targetSize) ==
  IF Len(values) = 0 THEN ZeroArray(targetSize)
  ELSE IF Len(values) = targetSize THEN values
  ELSE [k \in 1..targetSize |->
          InterpolateAt(values, ((k - 1) * Len(values)) \div targetSize,
                        Rat(((k - 1) * Len(values)) % targetSize, targetSize))]

\* One pass of the circular 3-point average, computed into temp and copied back.
SmoothSample(prev, curr, next) ==
  RAdd(RAdd(RMul(prev, Rat(1, 4)), RMul(curr, Rat(1, 2))), RMul(next, Rat(1, 4)))
SmoothPass(wavetable) ==
  [k \in 1..Len(wavetable) |->
     SmoothSample(wavetable[((k - 2 + Len(wavetable)) % Len(wavetable)) + 1],
                  wavetable[k],
                  wavetable[(k % Len(wavetable)) + 1])]

RECURSIVE smoothWavetable(_, _)
smoothWavetable(wavetable, passes) ==
  IF passes = 0 THEN wavetable
  ELSE smoothWavetable(SmoothPass(wavetable), passes - 1)

\* The arrays after the body of the inner loop has run for index i (from 0):
\* the weighted sum goes to temp, wavetable is left as it is.
AfterStore_InPlace(wavetable, temp, i) ==
  [wavetable |-> [wavetable EXCEPT ![i + 1] = SmoothPass(wavetable)[i + 1]],
   temp |-> [temp EXCEPT ![i + 1] = SmoothPass(wavetable)[i + 1]]]
AfterStore(wavetable, temp, i) ==
  [wavetable |-> wavetable,
   temp |-> [temp EXCEPT ![i + 1] = SmoothPass(wavetable)[i + 1]]]
\* passes, when the caller leaves it out
DEFAULT_PASSES == 2

\* The values of a day's readings, in order.
ReadingValues(readings) == [i \in 1..Len(readings) |-> readings[i].value]

\* A faulty variant: a day that holds a wavetable already has that one
\* smoothed once more instead of a new one made from its readings.
generateWavetable_SmoothsAttached(dayData) ==
  IF Len(dayData.readings) = 0 THEN ZeroArray(WAVETABLE_SIZE)
  ELSE IF Len(dayData.wavetable) = WAVETABLE_SIZE
  THEN smoothWavetable(dayData.wavetable, 2)
  ELSE smoothWavetable(
         resampleToWavetableSize(
           normalizeGlucoseValues(ReadingValues(dayData.readings)), WAVETABLE_SIZE),
         2)

generateWavetable(dayData) ==
  IF Len(dayData.readings) = 0 THEN ZeroArray(WAVETABLE_SIZE)
  ELSE smoothWavetable(
         resampleToWavetableSize(
           normalizeGlucoseValues(ReadingValues(dayData.readings)), WAVETABLE_SIZE),
         2)

(***************************************************************************)
(* computePartialsFromWavetable (part_000 288-311)                         *)
(***************************************************************************)
\* numPartials when the caller gives none
DEFAULT_NUM_PARTIALS == 64

\* Math.sqrt on the numbers whose root is a rational: NaN for NaN and for a
\* negative number, Infinity for Infinity, the exact root of a square.  (The
\* root of any other number is irrational and has no place in the exact
\* arithmetic; the inputs are chosen so that none is asked for.)
IntRoot(n) == CHOOSE r \in 0..n : r * r = n
IsSquare(x) ==
  /\ x.d > 0
  /\ x.n >= 0
  /\ \E r \in 0..x.n : r * r = x.n
  /\ \E r \in 0..x.d : r * r = x.d
Sqrt(x) ==
  CASE isNaN(x) -> NaN
    [] x.d = 0 -> IF x.n > 0 THEN PosInfinity ELSE NaN
    [] x.d > 0 /\ x.n < 0 -> NaN
    [] IsSquare(x) -> [n |-> IntRoot(x.n), d |-> IntRoot(x.d)]

\* Math.cos and Math.sin of angle = (2 * Math.PI * k * n) / N when the angle
\* is a whole number of quarter turns, the cosine and sine being 1, 0 or -1
\* there; turns is the number of quarter turns.
CosQuarter(turns) == CASE turns % 4 = 0 -> 1 [] turns % 4 = 2 -> -1 [] OTHER -> 0
SinQuarter(turns) == CASE turns % 4 = 1 -> 1 [] turns % 4 = 3 -> -1 [] OTHER -> 0
\* wavetable[n] * Math.cos(angle) and wavetable[n] * Math.sin(angle): NaN for
\* a NaN sample, 0 for a sample 0 whatever the angle, the exact product at
\* the quarter turns.  (At any other angle the cosine is irrational.)
TimesCos(sample, k, n, N) ==
  CASE isNaN(sample) -> NaN
    [] sample = Zero -> Zero
    [] (4 * k * n) % N = 0 -> RMul(sample, RInt(CosQuarter((4 * k * n) \div N)))
TimesSin(sample, k, n, N) ==
  CASE isNaN(sample) -> NaN
    [] sample = Zero -> Zero
    [] (4 * k * n) % N = 0 -> RMul(sample, RInt(SinQuarter((4 * k * n) \div N)))
\* real and imag after the loop over n = lo..hi (0-based), summed by halves.
RECURSIVE RealSum(_, _, _, _)
RealSum(wavetable, k, lo, hi) ==
  IF lo > hi THEN Zero
  ELSE IF lo = hi THEN TimesCos(wavetable[lo + 1], k, lo, Len(wavetable))
  ELSE RAdd(RealSum(wavetable, k, lo, (lo + hi) \div 2),
            RealSum(wavetable, k, ((lo + hi) \div 2) + 1, hi))
RECURSIVE ImagSum(_, _, _, _)
ImagSum(wavetable, k, lo, hi) ==
  IF lo > hi THEN Zero
  ELSE IF lo = hi THEN TimesSin(wavetable[lo + 1], k, lo, Len(wavetable))
  ELSE RAdd(ImagSum(wavetable, k, lo, (lo + hi) \div 2),
            ImagSum(wavetable, k, ((lo + hi) \div 2) + 1, hi))
\* Math.sqrt(real * real + imag * imag) / (N / 2)
Magnitude(real, imag, N) ==
  RDiv(Sqrt(RAdd(RMul(real, real), RMul(imag, imag))), RDiv(RInt(N), RInt(2)))
\* partials after the loop over k = 1..numPartials
HarmonicMagnitudes(wavetable, numPartials) ==
  [k \in 1..numPartials |->
     Magnitude(RealSum(wavetable, k, 0, Len(wavetable) - 1),
               ImagSum(wavetable, k, 0, Len(wavetable) - 1),
               Len(wavetable))]
\* A faulty variant: the fundamental is taken as it is.
FundamentalOf_NoGuard(partials) == IF Len(partials) = 0 THEN One ELSE partials[1]
\* partials[0] || 1: 1 when partials[0] is undefined, 0 or NaN
FundamentalOf(partials) ==
  IF Len(partials) = 0 \/ partials[1] = Zero \/ isNaN(partials[1]) THEN One ELSE partials[1]
\* partials.map(p => p / fundamental)
DividedBy(partials, fundamental) ==
  [k \in 1..Len(partials) |-> RDiv(partials[k], fundamental)]
computePartialsFromWavetable(wavetable, numPartials) ==
  DividedBy(HarmonicMagnitudes(wavetable, numPartials),
            FundamentalOf(HarmonicMagnitudes(wavetable, numPartials)))

(***************************************************************************)
(* CSV rows (libreview.ts 13-153)                                          *)
(***************************************************************************)
\* The pieces of s between the positions at (increasing; each one character).
PiecesAt(s, at) ==
  [k \in 1..(Len(at) + 1) |->
     SubSeq(s, IF k = 1 THEN 1 ELSE at[k - 1] + 1,
               IF k = Len(at) + 1 THEN Len(s) ELSE at[k] - 1)]
PiecesBetween(s, cuts) == PiecesAt(s, SortedSeq(cuts))

\* parseCSVLine: every quote toggles inQuotes and is dropped; a comma read
\* while inQuotes is false (an even number of quotes before it) ends the field.
QuotePositions(s) == { i \in 1..Len(s) : Char(s, i) = "\"" }
Unquoted(field) == JoinWith(PiecesBetween(field, QuotePositions(field)), "")
FieldsBetween(line, quotes) ==
  PiecesBetween(line, { i \in 1..Len(line) :
                          /\ Char(line, i) = ","
                          /\ Cardinality({ q \in quotes : q < i }) % 2 = 0 })
UnquotedAll(fields) == [k \in 1..Len(fields) |-> Unquoted(fields[k])]
parseCSVLine(line) == UnquotedAll(FieldsBetween(line, QuotePositions(line)))

\* A CSVRow is the sequence of its [key, value] properties in insertion
\* order, the order of Object.keys for keys that are no array indices (a
\* header that is a whole number is not modelled); assigning an existing key
\* keeps its place.
RowHas(row, key) == \E i \in 1..Len(row) : row[i].key = key
\* row[key], with undefined read as the empty string (both are falsy).
RowGet(row, key) ==
  IF RowHas(row, key) THEN row[CHOOSE i \in 1..Len(row) : row[i].key = key].value ELSE ""
RowSet(row, key, value) ==
  IF RowHas(row, key)
  THEN [i \in 1..Len(row) |-> IF row[i].key = key THEN [key |-> key, value |-> value] ELSE row[i]]
  ELSE Append(row, [key |-> key, value |-> value])
RowKeys(row) == [i \in 1..Len(row) |-> row[i].key]

\* headers.forEach((header, idx) => row[header.trim()] = values[idx]?.trim() || '')
RECURSIVE BuildRow(_, _, _, _)
BuildRow(headers, values, idx, row) ==
  IF idx > Len(headers) THEN row
  ELSE BuildRow(headers, values, idx + 1,
                RowSet(row, trim(headers[idx]),
                       IF idx <= Len(values) THEN trim(values[idx]) ELSE ""))

\* The index (0-based) of the header line: the first of the first 10 lines
\* that holds both "device" and "timestamp"; 0 when there is none.
IsHeaderLower(lowerLine) == includes(lowerLine, "device") /\ includes(lowerLine, "timestamp")
IsHeaderLine(line) == IsHeaderLower(toLowerCase(line))
FirstOrZero(hits) == IF hits = {} THEN 0 ELSE SetMin(hits)
FindHeaderIndex(fileLines) ==
  FirstOrZero({ i \in 0..((IF Len(fileLines) < 10 THEN Len(fileLines) ELSE 10) - 1) :
                  IsHeaderLine(fileLines[i + 1]) })

\* The rows of the lines after the header (0-based index headerIdx) whose
\* field count is the header's, in the order of the lines.
RowsOfValues(headerFields, accepted) ==
  [i \in 1..Len(accepted) |-> BuildRow(headerFields, accepted[i], 1, << >>)]
\* A faulty variant: a line of fewer fields than the header is a row too.
AcceptedValues_AtMost(headerFields, values) ==
  LET Accepted(v) == Len(v) <= Len(headerFields)
  IN  RowsOfValues(headerFields, SelectSeq(values, Accepted))
AcceptedValues(headerFields, values) ==
  LET Accepted(v) == Len(v) = Len(headerFields)
  IN  RowsOfValues(headerFields, SelectSeq(values, Accepted))
ValuesOfLines(headerFields, dataLines) ==
  AcceptedValues(headerFields, [i \in 1..Len(dataLines) |-> parseCSVLine(dataLines[i])])
ExtractRowsFrom(fileLines, headerFields, headerIdx) ==
  ValuesOfLines(headerFields, SubSeq(fileLines, headerIdx + 2, Len(fileLines)))

\* A faulty variant: the unit is looked for in the header as it is written.
detectUnit_CaseSensitive(headers) ==
  IF includes(JoinWith(headers, " "), "mmol/l") THEN "mmol/L" ELSE "mg/dL"
detectUnit(headers) ==
  IF includes(toLowerCase(JoinWith(headers, " ")), "mmol/l") THEN "mmol/L" ELSE "mg/dL"

\* The element of a sequence at the least of the positions hits, as a
\* one-element sequence; the empty sequence (null) when there is none.
FirstAt(seq, hits) == IF hits = {} THEN << >> ELSE << seq[SetMin(hits)] >>
\* a, or b when a is null
OrElse(a, b) == IF a # << >> THEN a ELSE b

GlucoseColumns ==
  << "Historic Glucose mg/dL", "Historic Glucose mmol/L",
     "Scan Glucose mg/dL", "Scan Glucose mmol/L",
     "Historic Glucose (mg/dL)", "Historic Glucose (mmol/L)" >>

\* The column name as a one-element sequence, or null as the empty sequence.
IsGlucoseKey(lowerKey) ==
  includes(lowerKey, "historic glucose") \/ includes(lowerKey, "scan glucose")
FirstGlucoseKey(row, keys) ==
  FirstAt(keys, { i \in 1..Len(keys) :
                    IsGlucoseKey(toLowerCase(keys[i])) /\ RowGet(row, keys[i]) # "" })
\* A faulty variant: a listed column is taken even when the row has no
\* value in it.
findGlucoseColumn_AnyValue(row) ==
  OrElse(FirstAt(GlucoseColumns,
                 { i \in 1..Len(GlucoseColumns) : RowHas(row, GlucoseColumns[i]) }),
         FirstGlucoseKey(row, RowKeys(row)))
findGlucoseColumn(row) ==
  OrElse(FirstAt(GlucoseColumns,
                 { i \in 1..Len(GlucoseColumns) :
                     RowHas(row, GlucoseColumns[i]) /\ RowGet(row, GlucoseColumns[i]) # "" }),
         FirstGlucoseKey(row, RowKeys(row)))

TimestampColumns == << "Device Timestamp", "Timestamp", "Time", "Date/Time" >>

\* The column name as a one-element sequence, or null as the empty sequence.
FirstTimestampKey(keys) ==
  FirstAt(keys, { i \in 1..Len(keys) : includes(toLowerCase(keys[i]), "timestamp") })
findTimestampColumn(row) ==
  OrElse(FirstAt(TimestampColumns,
                 { i \in 1..Len(TimestampColumns) : RowHas(row, TimestampColumns[i]) }),
         FirstTimestampKey(RowKeys(row)))

(***************************************************************************)
(* Readings (libreview.ts 158-199)                                         *)
(***************************************************************************)
\* 18.0182
MMOL_TO_MGDL == Rat(180182, 10000)

\* A faulty variant: a reading goes before the readings of its timestamp.
RECURSIVE InsertByTimestamp_TiesFirst(_, _)
InsertByTimestamp_TiesFirst(sorted, r) ==
  IF Len(sorted) = 0 THEN << r >>
  ELSE IF getTime(sorted[Len(sorted)].timestamp) - getTime(r.timestamp) < 0
       THEN Append(sorted, r)
  ELSE Append(InsertByTimestamp_TiesFirst(SubSeq(sorted, 1, Len(sorted) - 1), r),
              sorted[Len(sorted)])

\* readings.sort((a, b) => a.timestamp.getTime() - b.timestamp.getTime()):
\* Array.prototype.sort is stable.
RECURSIVE InsertByTimestamp(_, _)
InsertByTimestamp(sorted, r) ==
  IF Len(sorted) = 0 THEN << r >>
  ELSE IF getTime(sorted[Len(sorted)].timestamp) - getTime(r.timestamp) <= 0
       THEN Append(sorted, r)
  ELSE Append(InsertByTimestamp(SubSeq(sorted, 1, Len(sorted) - 1), r), sorted[Len(sorted)])
RECURSIVE SortByTimestampFrom(_, _, _)
SortByTimestampFrom(readings, i, sorted) ==
  IF i > Len(readings) THEN sorted
  ELSE SortByTimestampFrom(readings, i + 1, InsertByTimestamp(sorted, readings[i]))
SortByTimestamp(readings) == SortByTimestampFrom(readings, 1, << >>)

\* One turn of the loop over the rows: the readings with the row's reading
\* pushed, or unchanged when the row is skipped (continue).
PushReading(timestamp, normalizedValue, glucoseCol, readings) ==
  IF timestamp.isNull THEN readings
  ELSE Append(readings,
              [timestamp |-> timestamp.time,
               value |-> normalizedValue,
               recordType |-> IF includes(toLowerCase(glucoseCol), "scan") THEN 1 ELSE 0])
\* A faulty variant: a value that is no number is kept.
ReadValue_NoNumericCheck(value, timestampStr, glucoseCol, unit, readings) ==
  PushReading(parseTimestamp(timestampStr),
              IF unit = "mmol/L" THEN RMul(value, MMOL_TO_MGDL) ELSE value,
              glucoseCol, readings)
ReadValue(value, timestampStr, glucoseCol, unit, readings) ==
  IF isNaN(value) THEN readings
  ELSE PushReading(parseTimestamp(timestampStr),
                   IF unit = "mmol/L" THEN RMul(value, MMOL_TO_MGDL) ELSE value,
                   glucoseCol, readings)
ReadStrings(valueStr, timestampStr, glucoseCol, unit, readings) ==
  IF valueStr = "" \/ valueStr = "Lo" \/ valueStr = "Hi" THEN readings
  ELSE ReadValue(parseFloat(valueStr), timestampStr, glucoseCol, unit, readings)
ReadColumns(row, glucoseCol, timestampCol, unit, readings) ==
  IF glucoseCol = << >> \/ timestampCol = << >> THEN readings
  ELSE ReadStrings(RowGet(row, glucoseCol[1]), RowGet(row, timestampCol[1]),
                   glucoseCol[1], unit, readings)
ReadRow(row, timestampCol, unit, readings) ==
  ReadColumns(row, findGlucoseColumn(row), timestampCol, unit, readings)

RECURSIVE ReadRowsFrom(_, _, _, _, _)
ReadRowsFrom(rows, i, timestampCol, unit, readings) ==
  IF i > Len(rows) THEN readings
  ELSE ReadRowsFrom(rows, i + 1, timestampCol, unit,
                    ReadRow(rows[i], timestampCol, unit, readings))

parseGlucoseReadings(rows, unit) ==
  IF Len(rows) = 0 THEN << >>
  ELSE SortByTimestamp(ReadRowsFrom(rows, 1, findTimestampColumn(rows[1]), unit, << >>))

(***************************************************************************)
(* Days and their statistics (libreview.ts 264-327)                        *)
(***************************************************************************)
\* A faulty variant: month and day are not padded.
formatDateKey_NoPad(date) ==
  NumberToString(getFullYear(date))
    \o "-" \o NumberToString(getMonth(date) + 1)
    \o "-" \o NumberToString(getDate(date))
formatDateKey(date) ==
  NumberToString(getFullYear(date))
    \o "-" \o PadStart2(NumberToString(getMonth(date) + 1))
    \o "-" \o PadStart2(NumberToString(getDate(date)))

\* GLUCOSE_RANGE.targetMin and targetMax: the bounds written in calculateDayStats
TARGET_MIN == 70
TARGET_MAX == 180

\* values.reduce((a, b) => a + b, 0) over values[lo..hi], summed by halves
\* (the sum of exact rationals does not depend on the order).
RECURSIVE SumValues(_, _, _)
SumValues(values, lo, hi) ==
  IF lo > hi THEN Zero
  ELSE IF lo = hi THEN values[lo]
  ELSE RAdd(SumValues(values, lo, (lo + hi) \div 2),
            SumValues(values, ((lo + hi) \div 2) + 1, hi))

\* A faulty variant: the bounds themselves are out of range.
InTargetRange_Exclusive(v) == RLt(RInt(TARGET_MIN), v) /\ RLt(v, RInt(TARGET_MAX))
InTargetRange(v) == RLe(RInt(TARGET_MIN), v) /\ RLe(v, RInt(TARGET_MAX))

\* The stats calculateDayStats stores in dayData.
StatsOfValues(values) ==
  IF Len(values) = 0
  THEN [min |-> Zero, max |-> Zero, avg |-> Zero, timeInRange |-> Zero]
  ELSE [min |-> MathMin(values),
        max |-> MathMax(values),
        avg |-> RDiv(SumValues(values, 1, Len(values)), RInt(Len(values))),
        timeInRange |->
          RMul(RDiv(RInt(Cardinality({ i \in 1..Len(values) : InTargetRange(values[i]) })),
                    RInt(Len(values))),
               RInt(100))]
calculateDayStats(dayData) == StatsOfValues(ReadingValues(dayData.readings))

\* null: a day without wavetable holds the empty sequence (a generated
\* wavetable is never empty).
NullWavetable == << >>

\* days is the Map as the sequence of its values in insertion order.
HasDay(days, dateKey) == \E i \in 1..Len(days) : days[i].date = dateKey
\* days.set(dateKey, {...}) when the key is new
EnsureDay(days, dateKey) ==
  IF HasDay(days, dateKey) THEN days
  ELSE Append(days, [date |-> dateKey,
                     readings |-> << >>,
                     wavetable |-> NullWavetable,
                     stats |-> [min |-> PosInfinity, max |-> NegInfinity,
                                avg |-> Zero, timeInRange |-> Zero]])
\* days.get(dateKey).readings.push(reading)
PushToDay(days, dateKey, reading) ==
  [k \in 1..Len(days) |->
     IF days[k].date = dateKey
     THEN [days[k] EXCEPT !.readings = Append(@, reading)]
     ELSE days[k]]
BucketReading(days, dateKey, reading) ==
  PushToDay(EnsureDay(days, dateKey), dateKey, reading)
RECURSIVE BucketFrom(_, _, _)
BucketFrom(readings, i, days) ==
  IF i > Len(readings) THEN days
  ELSE BucketFrom(readings, i + 1,
                  BucketReading(days, formatDateKey(readings[i].timestamp), readings[i]))

WithStats(days) ==
  [k \in 1..Len(days) |-> [days[k] EXCEPT !.stats = calculateDayStats(days[k])]]
groupReadingsByDay(readings) == WithStats(BucketFrom(readings, 1, << >>))

\* getAvailableDates (libreview.ts 325-327): the keys of the Map, sorted.
\* Array.prototype.sort without a comparator orders strings by their code
\* units; the keys are made of digits and "-", which comes before the digits.
CodeUnitOrder == "-0123456789"
CodeUnitPlace(c) ==
  IF \E i \in 1..Len(CodeUnitOrder) : Char(CodeUnitOrder, i) = c
  THEN CHOOSE i \in 1..Len(CodeUnitOrder) : Char(CodeUnitOrder, i) = c
  ELSE Len(CodeUnitOrder) + 1
RECURSIVE StringBefore(_, _, _)
StringBefore(a, b, i) ==
  IF i > Len(b) THEN FALSE
  ELSE IF i > Len(a) THEN TRUE
  ELSE IF Char(a, i) = Char(b, i) THEN StringBefore(a, b, i + 1)
  ELSE CodeUnitPlace(Char(a, i)) < CodeUnitPlace(Char(b, i))
RECURSIVE InsertString(_, _)
InsertString(sorted, key) ==
  IF Len(sorted) = 0 THEN <<key>>
  ELSE IF StringBefore(key, Head(sorted), 1) THEN <<key>> \o sorted
  ELSE <<Head(sorted)>> \o InsertString(Tail(sorted), key)
RECURSIVE SortStrings(_, _, _)
SortStrings(keys, i, sorted) ==
  IF i > Len(keys) THEN sorted
  ELSE SortStrings(keys, i + 1, InsertString(sorted, keys[i]))
\* Array.from(data.days.keys())
KeysOf(days) == [k \in 1..Len(days) |-> days[k].date]
getAvailableDates(d) == SortStrings(KeysOf(d.days), 1, << >>)

\* A faulty variant: the day whose readings are read is the first one for
\* every day of the Map.
generateAllWavetables_FirstDay(days) ==
  [k \in 1..Len(days) |-> [days[k] EXCEPT !.wavetable = generateWavetable(days[1])]]

\* generateAllWavetables: every day gets its wavetable.
generateAllWavetables(days) ==
  [k \in 1..Len(days) |-> [days[k] EXCEPT !.wavetable = generateWavetable(days[k])]]


(***************************************************************************)
(* getWaveformForDisplay (part_000 325-335)                                *)
(***************************************************************************)
\* step and i * step are numbers, that is IEEE 754 doubles.  A positive
\* double is kept as its mantissa of MANTISSA_BITS bits, the most
\* significant (always 1) first, and the power of two its last bit stands
\* for: the value is mantissa * 2^exp.
MANTISSA_BITS == 53
\* points: number = 200
DEFAULT_POINTS == 200

\* The e with 2^e <= x / y < 2^(e + 1), for whole x, y >= 1.
RECURSIVE BinaryExponent(_, _)
BinaryExponent(x, y) ==
  IF x >= 2 * y THEN BinaryExponent(x, 2 * y) + 1
  ELSE IF x < y THEN BinaryExponent(2 * x, y) - 1
  ELSE 0
RECURSIVE Pow2(_)
Pow2(k) == IF k = 0 THEN 1 ELSE 2 * Pow2(k - 1)
\* The bits are worked out LIMB_BITS at a time, in whole numbers below 2^31.
LIMB_BITS == 13
\* The last width bits of v, the most significant first.
FixedBits(v, width) == [k \in 1..width |-> (v \div Pow2(width - k)) % 2]
\* The next count bits of r / y (r < y), and what is left of r after them.
RECURSIVE QuotientBits(_, _, _)
QuotientBits(r, y, count) ==
  IF count <= LIMB_BITS THEN FixedBits((r * Pow2(count)) \div y, count)
  ELSE FixedBits((r * Pow2(LIMB_BITS)) \div y, LIMB_BITS)
         \o QuotientBits((r * Pow2(LIMB_BITS)) % y, y, count - LIMB_BITS)
RECURSIVE RemainderAfter(_, _, _)
RemainderAfter(r, y, count) ==
  IF count <= LIMB_BITS THEN (r * Pow2(count)) % y
  ELSE RemainderAfter((r * Pow2(LIMB_BITS)) % y, y, count - LIMB_BITS)
\* bits + 1; one bit longer when every bit is 1.
LastZero(bits) ==
  IF \E k \in 1..Len(bits) : bits[k] = 0
  THEN CHOOSE k \in 1..Len(bits) : bits[k] = 0 /\ \A j \in (k + 1)..Len(bits) : bits[j] = 1
  ELSE 0
Incremented(bits) ==
  IF LastZero(bits) = 0 THEN <<1>> \o [k \in 1..Len(bits) |-> 0]
  ELSE [k \in 1..Len(bits) |->
          IF k < LastZero(bits) THEN bits[k] ELSE IF k = LastZero(bits) THEN 1 ELSE 0]
RoundedUp(bits, exp) ==
  IF Len(Incremented(bits)) > MANTISSA_BITS
  THEN [bits |-> SubSeq(Incremented(bits), 1, MANTISSA_BITS), exp |-> exp + 1]
  ELSE [bits |-> Incremented(bits), exp |-> exp]
\* Round to nearest, ties to even: bits (the first of them 1, at least
\* MANTISSA_BITS of them, the last standing for 2^exp) and whether something
\* more lies below the last bit.
IsRoundedUp(bits, more) ==
  /\ Len(bits) > MANTISSA_BITS
  /\ bits[MANTISSA_BITS + 1] = 1
  /\ \/ more
     \/ \E k \in (MANTISSA_BITS + 2)..Len(bits) : bits[k] = 1
     \/ bits[MANTISSA_BITS] = 1
RoundToDouble(bits, exp, more) ==
  IF IsRoundedUp(bits, more)
  THEN RoundedUp(SubSeq(bits, 1, MANTISSA_BITS), exp + (Len(bits) - MANTISSA_BITS))
  ELSE [bits |-> SubSeq(bits, 1, MANTISSA_BITS), exp |-> exp + (Len(bits) - MANTISSA_BITS)]

\* x / y for whole x, y >= 1, x / y scaled into [1, 2) by a power of two.
ScaledNumerator(x, y) ==
  IF BinaryExponent(x, y) < 0 THEN x * Pow2(-BinaryExponent(x, y)) ELSE x
ScaledDenominator(x, y) ==
  IF BinaryExponent(x, y) > 0 THEN y * Pow2(BinaryExponent(x, y)) ELSE y
QuotientOfScaled(sx, sy, e) ==
  RoundToDouble(<<1>> \o QuotientBits(sx - sy, sy, MANTISSA_BITS),
                e - MANTISSA_BITS,
                RemainderAfter(sx - sy, sy, MANTISSA_BITS) # 0)
DoubleQuotient(x, y) ==
  QuotientOfScaled(ScaledNumerator(x, y), ScaledDenominator(x, y), BinaryExponent(x, y))

\* The whole number of a few bits, and the bits of a whole number.
RECURSIVE BitsValue(_)
BitsValue(bits) ==
  IF Len(bits) = 0 THEN 0
  ELSE 2 * BitsValue(SubSeq(bits, 1, Len(bits) - 1)) + bits[Len(bits)]
RECURSIVE BitsOf(_)
BitsOf(k) == IF k = 0 THEN << >> ELSE BitsOf(k \div 2) \o <<k % 2>>
\* i * d for a whole i >= 1: the bits of the product, from the last
\* LIMB_BITS bits up.
LowWidth(bits) == IF Len(bits) < LIMB_BITS THEN Len(bits) ELSE LIMB_BITS
LowValue(bits) == BitsValue(SubSeq(bits, Len(bits) - LowWidth(bits) + 1, Len(bits)))
RECURSIVE ProductBits(_, _, _)
ProductBits(bits, i, carry) ==
  IF Len(bits) = 0 THEN BitsOf(carry)
  ELSE ProductBits(SubSeq(bits, 1, Len(bits) - LowWidth(bits)), i,
                   (i * LowValue(bits) + carry) \div Pow2(LowWidth(bits)))
         \o FixedBits((i * LowValue(bits) + carry) % Pow2(LowWidth(bits)), LowWidth(bits))
DoubleTimes(i, d) ==
  RoundToDouble(ProductBits(d.bits, i, 0), d.exp, FALSE)

\* Math.floor of a positive double below 2^LIMB_BITS.
FloorOfDouble(d) ==
  IF MANTISSA_BITS + d.exp <= 0 THEN 0
  ELSE BitsValue(SubSeq(d.bits, 1, MANTISSA_BITS + d.exp))

\* wavetable[index] of a typed array: undefined outside 0..length-1.
\* undefined is kept as a pair that no number is.
Undefined == [n |-> 0, d |-> -1]
ElementAt(wavetable, index) ==
  IF 0 <= index /\ index < Len(wavetable) THEN wavetable[index + 1] ELSE Undefined

\* A faulty variant: the loop counts from 1 to points.
DisplayIndex_FromOne(length, points, i) ==
  FloorOfDouble(DoubleTimes(i + 1, DoubleQuotient(length, points)))
\* Math.floor(i * step) with step = wavetable.length / points, for
\* 0 <= i < points; 0 * step is 0, and so is i * step when the length is 0.
DisplayIndex(length, points, i) ==
  IF i = 0 \/ length = 0 THEN 0
  ELSE FloorOfDouble(DoubleTimes(i, DoubleQuotient(length, points)))
getWaveformForDisplay(wavetable, points) ==
  [j \in 1..points |-> ElementAt(wavetable, DisplayIndex(Len(wavetable), points, j - 1))]

(***************************************************************************)
(* Glucose features (effects-config.ts 292-411)                            *)
(***************************************************************************)
\* GLUCOSE_THRESHOLDS
VOLATILITY_HIGH == 40
VOLATILITY_LOW == 20
AVERAGE_HIGH == 150
AVERAGE_LOW == 100
AVERAGE_TARGET == 120

\* values.map(v => Math.pow(v - mean, 2))
SquaredDiffs(values, mean) ==
  [i \in 1..Len(values) |-> RMul(RSub(values[i], mean), RSub(values[i], mean))]
\* the mean of a non-empty array: reduce(...) / length
MeanOf(values) == RDiv(SumValues(values, 1, Len(values)), RInt(Len(values)))
\* stdDev, given the mean
DeviationAround(values, mean) == Sqrt(MeanOf(SquaredDiffs(values, mean)))
computeVolatility(readings) ==
  IF Len(readings) < 2 THEN Zero
  ELSE DeviationAround(ReadingValues(readings), MeanOf(ReadingValues(readings)))

\* The default of combineGlucoseStats for no day.
NeutralStats ==
  [min |-> RInt(70), max |-> RInt(180), avg |-> RInt(120), timeInRange |-> RInt(70),
   volatility |-> RInt(25)]
\* The start of the reduce, and its callback.
CombineSeed ==
  [min |-> PosInfinity, max |-> NegInfinity, avg |-> Zero, timeInRange |-> Zero,
   volatility |-> Zero]
CombineStep(acc, stats) ==
  [min |-> RMin(acc.min, stats.min),
   max |-> RMax(acc.max, stats.max),
   avg |-> RAdd(acc.avg, stats.avg),
   timeInRange |-> RAdd(acc.timeInRange, stats.timeInRange),
   volatility |-> RAdd(acc.volatility, stats.volatility)]
RECURSIVE CombineFrom(_, _, _)
CombineFrom(statsArray, i, acc) ==
  IF i > Len(statsArray) THEN acc
  ELSE CombineFrom(statsArray, i + 1, CombineStep(acc, statsArray[i]))
\* A faulty variant: the sums are divided by one less than the length.
CombinedOver_LessOne(sums, length) ==
  [min |-> sums.min,
   max |-> sums.max,
   avg |-> RDiv(sums.avg, RInt(length - 1)),
   timeInRange |-> RDiv(sums.timeInRange, RInt(length - 1)),
   volatility |-> RDiv(sums.volatility, RInt(length - 1))]
\* The object returned for two days or more.
CombinedOver(sums, length) ==
  [min |-> sums.min,
   max |-> sums.max,
   avg |-> RDiv(sums.avg, RInt(length)),
   timeInRange |-> RDiv(sums.timeInRange, RInt(length)),
   volatility |-> RDiv(sums.volatility, RInt(length))]
\* Lines 354-368: the reduce and the means.
CombineMany(statsArray) ==
  CombinedOver(CombineFrom(statsArray, 1, CombineSeed), Len(statsArray))
\* A faulty variant: without the case of the empty array of lines 346-348.
combineGlucoseStats_NoEmptyCase(statsArray) ==
  IF Len(statsArray) = 1 THEN statsArray[1]
  ELSE CombineMany(statsArray)
combineGlucoseStats(statsArray) ==
  IF Len(statsArray) = 0 THEN NeutralStats
  ELSE IF Len(statsArray) = 1 THEN statsArray[1]
  ELSE CombineMany(statsArray)

\* Math.min(1, Math.max(0, x))
ClampToUnit(x) == RMin(One, RMax(Zero, x))
NormalizeAverage(value) ==
  IF RLe(value, RInt(AVERAGE_LOW)) THEN Zero
  ELSE IF RLe(RInt(AVERAGE_HIGH), value) THEN One
  ELSE IF RLe(value, RInt(AVERAGE_TARGET))
  THEN RDiv(RMul(Rat(1, 2), RSub(value, RInt(AVERAGE_LOW))),
            RInt(AVERAGE_TARGET - AVERAGE_LOW))
  ELSE RAdd(Rat(1, 2),
            RDiv(RMul(Rat(1, 2), RSub(value, RInt(AVERAGE_TARGET))),
                 RInt(AVERAGE_HIGH - AVERAGE_TARGET)))
normalizeGlucoseStat(value, type) ==
  CASE type = "volatility" ->
         ClampToUnit(RDiv(RSub(value, RInt(VOLATILITY_LOW)),
                          RInt(VOLATILITY_HIGH - VOLATILITY_LOW)))
    [] type = "average" -> NormalizeAverage(value)
    [] type = "timeInRange" -> ClampToUnit(RDiv(value, RInt(100)))
    [] OTHER -> Rat(1, 2)

(***************************************************************************)
(* The program: parseLibreViewCSV on a file text, then generateAllWavetables*)
(***************************************************************************)
VARIABLES
  csvContent,    \* the argument of parseLibreViewCSV
  pc,            \* the place in parseLibreViewCSV: start, header, rows,
                 \* readings, grouped; then returned, wavetables after
                 \* generateAllWavetables, regenerated after a further call
  lines, headerIndex, headers, rows, unit, deviceName, serialNumber,
  readings, days,  \* the locals of parseLibreViewCSV
  data,          \* the ParsedLibreViewData it returned
  tsInput,       \* the argument of parseTimestamp
  tspc,          \* the place in parseTimestamp: call, matched, done
  tsLocals,      \* its locals year, month, day, hour, minute
  tsResult,      \* the Date it returned, or null
  dayData,       \* the argument of generateWavetable
  wpc,           \* the place in generateWavetable: call, normalized,
                 \* resampled, done; physiological after
                 \* normalizeToPhysiologicalRange
  normalized, wavetable,  \* the locals of generateWavetable
  physiological, \* the result of normalizeToPhysiologicalRange
  ptWavetable, numPartials,  \* the arguments of computePartialsFromWavetable
  ppc,           \* the place in computePartialsFromWavetable: call,
                 \* magnitudes, done
  partials,      \* its local partials: the magnitudes of the harmonics
  ptResult,      \* the array it returned
  fpc,           \* the call of effects-config.ts under way: combine,
                 \* normalize, volatility; combined, normalized, computed
                 \* when it has returned
  statsArray, combined,   \* combineGlucoseStats: argument and result
  statValue, statType, statResult,  \* normalizeGlucoseStat: arguments, result
  volReadings, volatility,  \* computeVolatility: argument and result
  dispWavetable, points,  \* the arguments of getWaveformForDisplay
  dpc,           \* the place in getWaveformForDisplay: call, done
  dispResult,    \* the array it returned
  rsValues, targetSize,  \* the arguments of resampleToWavetableSize
  rspc,          \* the place in resampleToWavetableSize: call, done
  rsResult,      \* the array it returned
  smInput,       \* the wavetable as it was passed to smoothWavetable
  smWavetable, smPasses,  \* the arguments of smoothWavetable
  temp,          \* its local temp
  smPass, smIndex,  \* its loop counters pass and i
  smpc,          \* the place in smoothWavetable: loop, done
  gcRow, gcUnit, \* a row and the unit, as parseGlucoseReadings has them
  gcCol,         \* glucoseCol of its loop, the result of findGlucoseColumn
  gcReadings,    \* its readings after the row
  gcpc,          \* the place in the turn of its loop: find, read, done
  activeNotes,   \* PianoKeyboard.activeNotes
  activeKeys,    \* the notes whose key element has the class active
  lastCall,      \* for each note the latest call the synth got: none,
                 \* noteOn, noteOff
  synthCalls,    \* the calls the synth got from the latest handler
  selData,       \* DaySelector.data
  selectedDate, onSelectCallback, selectingForOsc,  \* its other fields
  selectingClass,  \* its container has the class selecting-for-osc
  dayItems,      \* the dates of the day items it has rendered, in order
  selectedItems, \* the places of the day items with the class selected
  callbackCalls, \* the calls of the callback made by the latest handler
  dispatched,    \* the events it dispatched to the window
  isPlaying, animationFrame, playheadPosition,  \* fields of WaveformDisplay;
                 \* the position in thousandths
  pendingFrames, \* the requests of an animation frame that are pending
  nextFrame,     \* the handle the next request gets
  drawn,         \* what the latest handler did: advance, draw
  fxOrder,       \* the order of the effects chain; the modules of the
                 \* panel are rendered in it
  draggedEffect, \* EffectsPanel.draggedEffect
  draggingClass, \* the effects whose module has the class dragging
  dragOverClass, \* for each effect the class of its module among
                 \* drag-over-left and drag-over-right, or none
  reorderCalls   \* the orders passed to reorder by the latest handler

parserVars == <<csvContent, pc, lines, headerIndex, headers, rows, unit,
                deviceName, serialNumber, readings, days, data>>
timestampVars == <<tsInput, tspc, tsLocals, tsResult>>
waveVars == <<dayData, wpc, normalized, wavetable, physiological>>
partialsVars == <<ptWavetable, numPartials, partials, ptResult, ppc>>
featureVars == <<fpc, statsArray, combined, statValue, statType, statResult,
                 volReadings, volatility>>
displayVars == <<dispWavetable, points, dpc, dispResult>>

\* The state of the functions and components that are checked on their own.
resampleVars == <<rsValues, targetSize, rspc, rsResult>>
smoothVars == <<smInput, smWavetable, smPasses, temp, smPass, smIndex, smpc>>
columnVars == <<gcRow, gcUnit, gcCol, gcReadings, gcpc>>
pianoVars == <<activeNotes, activeKeys, lastCall, synthCalls>>
selectorVars == <<selData, selectedDate, onSelectCallback, selectingForOsc, selectingClass, dayItems, selectedItems, callbackCalls, dispatched>>
playheadVars == <<isPlaying, animationFrame, playheadPosition, pendingFrames, nextFrame, drawn>>
panelVars == <<fxOrder, draggedEffect, draggingClass, dragOverClass, reorderCalls>>
componentVars == <<resampleVars, smoothVars, columnVars, pianoVars, selectorVars, playheadVars, panelVars>>
synthesisVars == <<partialsVars, featureVars, displayVars, componentVars>>
vars == <<parserVars, timestampVars, waveVars, synthesisVars>>
\* All the variables but those of one component.
resampleRest ==
  <<parserVars, timestampVars, waveVars, partialsVars, featureVars, displayVars,
    smoothVars,
    columnVars,
    pianoVars,
    selectorVars,
    playheadVars,
    panelVars>>
smoothRest ==
  <<parserVars, timestampVars, waveVars, partialsVars, featureVars, displayVars,
    resampleVars,
    columnVars,
    pianoVars,
    selectorVars,
    playheadVars,
    panelVars>>
columnRest ==
  <<parserVars, timestampVars, waveVars, partialsVars, featureVars, displayVars,
    resampleVars,
    smoothVars,
    pianoVars,
    selectorVars,
    playheadVars,
    panelVars>>
pianoRest ==
  <<parserVars, timestampVars, waveVars, partialsVars, featureVars, displayVars,
    resampleVars,
    smoothVars,
    columnVars,
    selectorVars,
    playheadVars,
    panelVars>>
selectorRest ==
  <<parserVars, timestampVars, waveVars, partialsVars, featureVars, displayVars,
    resampleVars,
    smoothVars,
    columnVars,
    pianoVars,
    playheadVars,
    panelVars>>
playheadRest ==
  <<parserVars, timestampVars, waveVars, partialsVars, featureVars, displayVars,
    resampleVars,
    smoothVars,
    columnVars,
    pianoVars,
    selectorVars,
    panelVars>>
panelRest ==
  <<parserVars, timestampVars, waveVars, partialsVars, featureVars, displayVars,
    resampleVars,
    smoothVars,
    columnVars,
    pianoVars,
    selectorVars,
    playheadVars>>

\* The sequences over S of length at most n.
BoundedSeqs(S, n) == UNION { [1..k -> S] : k \in 0..n }

EmptyData == [days |-> << >>, unit |-> "mg/dL", deviceName |-> "", serialNumber |-> ""]
NullDate == [isNull |-> TRUE, time |-> 0]
NoLocals == [year |-> 0, month |-> 0, day |-> 0, hour |-> 0, minute |-> 0]
NoDay == [date |-> "", readings |-> << >>, wavetable |-> NullWavetable,
          stats |-> [min |-> Zero, max |-> Zero, avg |-> Zero, timeInRange |-> Zero]]

LocalsCleared == /\ lines = << >>
                 /\ headerIndex = 0
                 /\ headers = << >>
                 /\ rows = << >>
                 /\ unit = "mg/dL"
                 /\ deviceName = ""
                 /\ serialNumber = ""
                 /\ readings = << >>
                 /\ days = << >>
ParserIdle == /\ csvContent = ""
              /\ pc = "idle"
              /\ LocalsCleared
              /\ data = EmptyData
TimestampIdle == /\ tsInput = ""
                 /\ tspc = "idle"
                 /\ tsLocals = NoLocals
                 /\ tsResult = NullDate
NoStats == [min |-> Zero, max |-> Zero, avg |-> Zero, timeInRange |-> Zero,
            volatility |-> Zero]
PartialsIdle == /\ ptWavetable = << >>
                /\ numPartials = 0
                /\ ppc = "idle"
                /\ partials = << >>
                /\ ptResult = << >>
FeaturesIdle == /\ fpc = "idle"
                /\ statsArray = << >>
                /\ combined = NoStats
                /\ statValue = Zero
                /\ statType = ""
                /\ statResult = Zero
                /\ volReadings = << >>
                /\ volatility = Zero
DisplayIdle == /\ dispWavetable = << >>
               /\ points = 0
               /\ dpc = "idle"
               /\ dispResult = << >>
\* The components at rest.
ResampleIdle ==
  /\ rsValues = << >>
  /\ targetSize = 0
  /\ rspc = "idle"
  /\ rsResult = << >>
SmoothIdle ==
  /\ smInput = << >>
  /\ smWavetable = << >>
  /\ smPasses = 0
  /\ temp = << >>
  /\ smPass = 0
  /\ smIndex = 0
  /\ smpc = "idle"
ColumnIdle ==
  /\ gcRow = << >>
  /\ gcUnit = ""
  /\ gcCol = << >>
  /\ gcReadings = << >>
  /\ gcpc = "idle"
PianoIdle ==
  /\ activeNotes = {}
  /\ activeKeys = {}
  /\ lastCall = << >>
  /\ synthCalls = << >>
SelectorIdle ==
  /\ selData = << >>
  /\ selectedDate = << >>
  /\ onSelectCallback = << >>
  /\ selectingForOsc = << >>
  /\ selectingClass = FALSE
  /\ dayItems = << >>
  /\ selectedItems = {}
  /\ callbackCalls = << >>
  /\ dispatched = << >>
PlayheadIdle ==
  /\ isPlaying = FALSE
  /\ animationFrame = << >>
  /\ playheadPosition = 0
  /\ pendingFrames = {}
  /\ nextFrame = 0
  /\ drawn = << >>
PanelIdle ==
  /\ fxOrder = << >>
  /\ draggedEffect = << >>
  /\ draggingClass = {}
  /\ dragOverClass = << >>
  /\ reorderCalls = << >>
ComponentsIdle ==
  /\ ResampleIdle
  /\ SmoothIdle
  /\ ColumnIdle
  /\ PianoIdle
  /\ SelectorIdle
  /\ PlayheadIdle
  /\ PanelIdle
SynthesisIdle == PartialsIdle /\ FeaturesIdle /\ DisplayIdle /\ ComponentsIdle
WaveIdle == /\ dayData = NoDay
            /\ wpc = "idle"
            /\ normalized = << >>
            /\ wavetable = << >>
            /\ physiological = << >>

\* Everything at rest but one component.
FunctionsIdle ==
  /\ ParserIdle /\ TimestampIdle /\ WaveIdle
  /\ PartialsIdle /\ FeaturesIdle /\ DisplayIdle
ResampleRestIdle ==
  /\ FunctionsIdle
  /\ SmoothIdle
  /\ ColumnIdle
  /\ PianoIdle
  /\ SelectorIdle
  /\ PlayheadIdle
  /\ PanelIdle
SmoothRestIdle ==
  /\ FunctionsIdle
  /\ ResampleIdle
  /\ ColumnIdle
  /\ PianoIdle
  /\ SelectorIdle
  /\ PlayheadIdle
  /\ PanelIdle
ColumnRestIdle ==
  /\ FunctionsIdle
  /\ ResampleIdle
  /\ SmoothIdle
  /\ PianoIdle
  /\ SelectorIdle
  /\ PlayheadIdle
  /\ PanelIdle
PianoRestIdle ==
  /\ FunctionsIdle
  /\ ResampleIdle
  /\ SmoothIdle
  /\ ColumnIdle
  /\ SelectorIdle
  /\ PlayheadIdle
  /\ PanelIdle
SelectorRestIdle ==
  /\ FunctionsIdle
  /\ ResampleIdle
  /\ SmoothIdle
  /\ ColumnIdle
  /\ PianoIdle
  /\ PlayheadIdle
  /\ PanelIdle
PlayheadRestIdle ==
  /\ FunctionsIdle
  /\ ResampleIdle
  /\ SmoothIdle
  /\ ColumnIdle
  /\ PianoIdle
  /\ SelectorIdle
  /\ PanelIdle
PanelRestIdle ==
  /\ FunctionsIdle
  /\ ResampleIdle
  /\ SmoothIdle
  /\ ColumnIdle
  /\ PianoIdle
  /\ SelectorIdle
  /\ PlayheadIdle

(***************************************************************************)
(* parseLibreViewCSV and generateAllWavetables                             *)
(***************************************************************************)
\* The most data lines of an input file.
MaxRows == 3

MetaLine == "Glucose Data,Generated on,04-06-2024 12:00 UTC,Generated by,N N"
HeaderMgdl ==
  "Device,Serial Number,Device Timestamp,Record Type,Historic Glucose mg/dL,Scan Glucose mg/dL"
HeaderMmol ==
  "Device,Serial Number,Device Timestamp,Record Type,Historic Glucose mmol/L,Scan Glucose mmol/L"
HeaderPlain == "Time,Historic Glucose (mg/dL)"
HeaderShort == "Device,Device Timestamp,Historic Glucose mg/dL"

\* The input files: the lines up to the header, the line break, the end of
\* the text, and the data lines a file draws from.
Files ==
  { [preamble |-> <<MetaLine, HeaderMgdl>>, eol |-> "\n", tail |-> "\n",
     dataLines |-> { "L3,S1,01-06-2024 10:00,0,120,",
                     "L3,S1,01-06-2024 10:00,1,,95",
                     "L3,S1,31-05-2024 23:59,0,70,",
                     "L3,S1,01-06-2024 09:00,0,," }],
    [preamble |-> <<HeaderMgdl>>, eol |-> "\r\n", tail |-> "",
     dataLines |-> { "L3,S1,03-13-2024 08:30,0,Hi,",
                     "L3,S1,13-03-2024 08:30,0,99.5,101",
                     "L3,S1,13-03-2024 09:00,0,Infinity,",
                     "L3,\"S,1\",2024-06-02T08:30,0,180.1," }],
    [preamble |-> <<MetaLine, MetaLine, MetaLine, MetaLine, MetaLine,
                    MetaLine, MetaLine, MetaLine, MetaLine, MetaLine, HeaderMgdl>>,
     eol |-> "\n", tail |-> "",
     dataLines |-> { "L3,S1,01-06-2024 10:00,0,120,",
                     "Glucose Data,Generated on,05-06-2024 12:00 UTC,Generated by,N N",
                     "" }],
    [preamble |-> <<MetaLine, HeaderMmol>>, eol |-> "\n", tail |-> "",
     dataLines |-> { "L3,S1,01-06-2024 10:00,0,5.5,",
                     "L3,S1,01-06-2024 10:00,1,,10",
                     "L3,S1,1/6/24 9:05,0,Lo,3.9",
                     "L3,S1,,0,6.1," }],
    [preamble |-> <<HeaderPlain>>, eol |-> "\n", tail |-> "\n\n",
     dataLines |-> { "01-06-2024 10:00,120",
                     "02-06-2024 10:05,Lo",
                     "n/a,100",
                     "01-06-2024 10:00,abc" }],
    [preamble |-> <<MetaLine, HeaderMgdl>>, eol |-> "\n", tail |-> "",
     dataLines |-> { "L3,S1,01-06-2024 08:00,0,69.9,",
                     "L3,S1,01-06-2024 08:05,0,70,",
                     "L3,S1,01-06-2024 08:10,0,180,",
                     "L3,S1,01-06-2024 08:15,0,180.1," }],
    [preamble |-> <<HeaderShort>>, eol |-> "\n", tail |-> "",
     dataLines |-> { "L3,01-06-2024 10:00,120",
                     "",
                     "L3,01-06-2024 10:05,110,7" }] }

\* A file text is about to be parsed.
Init ==
  /\ \E f \in Files : \E body \in BoundedSeqs(f.dataLines, MaxRows) :
       csvContent = JoinWith(f.preamble \o body, f.eol) \o f.tail
  /\ pc = "start"
  /\ LocalsCleared
  /\ data = EmptyData
  /\ TimestampIdle
  /\ WaveIdle
  /\ SynthesisIdle

\* libreview.ts 14-24
FindHeader ==
  /\ pc = "start"
  /\ lines' = SplitLines(trim(csvContent))
  /\ headerIndex' = FindHeaderIndex(lines')
  /\ pc' = "header"
  /\ UNCHANGED <<csvContent, headers, rows, unit, deviceName, serialNumber,
                 readings, days, data, timestampVars, waveVars, synthesisVars>>

\* libreview.ts 26-45
ExtractRows ==
  /\ pc = "header"
  /\ headers' = parseCSVLine(lines[headerIndex + 1])
  /\ rows' = ExtractRowsFrom(lines, headers', headerIndex)
  /\ unit' = detectUnit(headers')
  /\ deviceName' = IF Len(rows') > 0 /\ RowGet(rows'[1], "Device") # ""
                   THEN RowGet(rows'[1], "Device") ELSE "Unknown Device"
  /\ serialNumber' = IF Len(rows') > 0 THEN RowGet(rows'[1], "Serial Number") ELSE ""
  /\ pc' = "rows"
  /\ UNCHANGED <<csvContent, lines, headerIndex, readings, days, data,
                 timestampVars, waveVars, synthesisVars>>

\* libreview.ts 48
ParseReadings ==
  /\ pc = "rows"
  /\ readings' = parseGlucoseReadings(rows, unit)
  /\ pc' = "readings"
  /\ UNCHANGED <<csvContent, lines, headerIndex, headers, rows, unit, deviceName,
                 serialNumber, days, data, timestampVars, waveVars, synthesisVars>>

\* libreview.ts 51
GroupByDay ==
  /\ pc = "readings"
  /\ days' = groupReadingsByDay(readings)
  /\ pc' = "grouped"
  /\ UNCHANGED <<csvContent, lines, headerIndex, headers, rows, unit, deviceName,
                 serialNumber, readings, data, timestampVars, waveVars, synthesisVars>>

\* libreview.ts 53-58: the result is returned and the locals are gone.
Return ==
  /\ pc = "grouped"
  /\ data' = [days |-> days, unit |-> unit, deviceName |-> deviceName,
              serialNumber |-> serialNumber]
  /\ pc' = "returned"
  /\ csvContent' = ""
  /\ lines' = << >>
  /\ headerIndex' = 0
  /\ headers' = << >>
  /\ rows' = << >>
  /\ unit' = "mg/dL"
  /\ deviceName' = ""
  /\ serialNumber' = ""
  /\ readings' = << >>
  /\ days' = << >>
  /\ UNCHANGED <<timestampVars, waveVars, synthesisVars>>

\* part_000 316-320, on the days of the parsed data.
GenerateAllWavetables ==
  /\ pc = "returned"
  /\ data' = [data EXCEPT !.days = generateAllWavetables(data.days)]
  /\ pc' = "wavetables"
  /\ UNCHANGED <<csvContent, lines, headerIndex, headers, rows, unit,
                 deviceName, serialNumber, readings, days, timestampVars, waveVars, synthesisVars>>

Next ==
  \/ FindHeader
  \/ ExtractRows
  \/ ParseReadings
  \/ GroupByDay
  \/ Return
  \/ GenerateAllWavetables

Spec == Init /\ [][Next]_vars

(***************************************************************************)
(* generateAllWavetables, called again and again on a parsed dataset       *)
(***************************************************************************)
\* The most readings of a dataset.
MaxDataReadings == 2

\* The readings a dataset draws from, in the order of their timestamps:
\* three days, the Infinity of the text "Infinity" among the values.
DataCatalogue ==
  << [timestamp |-> NewDate(2024, 5, 1, 8, 0), value |-> RInt(80), recordType |-> 0],
     [timestamp |-> NewDate(2024, 5, 1, 8, 5), value |-> RInt(120), recordType |-> 0],
     [timestamp |-> NewDate(2024, 5, 1, 8, 10), value |-> RInt(80), recordType |-> 1],
     [timestamp |-> NewDate(2024, 5, 2, 8, 0), value |-> RInt(120), recordType |-> 0],
     [timestamp |-> NewDate(2024, 5, 2, 8, 5), value |-> PosInfinity, recordType |-> 0],
     [timestamp |-> NewDate(2024, 5, 3, 8, 0), value |-> RInt(100), recordType |-> 0],
     [timestamp |-> NewDate(2024, 5, 3, 8, 5), value |-> RInt(100), recordType |-> 0],
     [timestamp |-> NewDate(2024, 5, 3, 8, 10), value |-> Rat(991001, 10000), recordType |-> 0] >>
\* The readings of the catalogue at the given places, in order.
DataReadingsAt(places) == [i \in 1..Len(places) |-> DataCatalogue[places[i]]]
\* The arrays parseGlucoseReadings can return from them: sorted by timestamp.
DataReadings ==
  { DataReadingsAt(SortedSeq(S)) :
      S \in { T \in SUBSET (1..Len(DataCatalogue)) : Cardinality(T) <= MaxDataReadings } }

\* parseLibreViewCSV has returned a dataset.
InitDays ==
  /\ \E rs \in DataReadings :
       data = [days |-> groupReadingsByDay(rs), unit |-> "mg/dL",
               deviceName |-> "L3", serialNumber |-> "S1"]
  /\ pc = "returned"
  /\ csvContent = ""
  /\ LocalsCleared
  /\ TimestampIdle
  /\ WaveIdle
  /\ SynthesisIdle

\* part_000 316-320, called on days that hold their wavetables already.
RegenerateAllWavetables ==
  /\ pc \in {"wavetables", "regenerated"}
  /\ data' = [data EXCEPT !.days = generateAllWavetables(data.days)]
  /\ pc' = "regenerated"
  /\ UNCHANGED <<csvContent, lines, headerIndex, headers, rows, unit,
                 deviceName, serialNumber, readings, days, timestampVars, waveVars, synthesisVars>>

NextDays ==
  \/ GenerateAllWavetables
  \/ RegenerateAllWavetables

SpecDays == InitDays /\ [][NextDays]_vars

(***************************************************************************)
(* parseTimestamp on one string, step by step                              *)
(***************************************************************************)
\* The largest value of the first two groups of a date.
MaxDateNumber == 31

DateSeparators == {"-", "/", "."}
\* A number as its digits, or padded to two digits.
DateField(n, padded) == IF padded THEN PadStart2(NumberToString(n)) ELSE NumberToString(n)
\* A-B-C with a four-digit C, and a time.
DateText(a, b, sep, padded) ==
  DateField(a, padded) \o sep \o DateField(b, padded) \o sep \o "2024 08:30"

\* The strings parseTimestamp is applied to.
TimestampInputs ==
  { DateText(a, b, sep, padded) :
      a \in 1..MaxDateNumber, b \in 1..MaxDateNumber,
      sep \in DateSeparators, padded \in BOOLEAN }
  \cup { "", "n/a", "2024-06-02 08:30", "2024-06-02T08:30", "2024-06-02T08:30:15",
         "24-6-2 8:05", "1/6/24 9:05", "at 02.06.2024  23:59:59 h" }

InitTimestamp ==
  /\ tsInput \in TimestampInputs
  /\ tspc = "call"
  /\ tsLocals = NoLocals
  /\ tsResult = NullDate
  /\ ParserIdle
  /\ WaveIdle
  /\ SynthesisIdle

\* libreview.ts 205
ReturnNullTimestamp ==
  /\ tspc = "call"
  /\ tsInput = ""
  /\ tsResult' = NullDate
  /\ tspc' = "done"
  /\ UNCHANGED <<tsInput, tsLocals, parserVars, waveVars, synthesisVars>>

\* The locals after libreview.ts 211-247.
LocalsOfParts(ymd, hour, minute) ==
  [year |-> ymd.year, month |-> ymd.month, day |-> ymd.day,
   hour |-> parseInt(hour), minute |-> parseInt(minute)]
LocalsOfMatch(parts) ==
  LocalsOfParts(ResolveDateParts(parts.p1, parts.p2, parts.p3), parts.hour, parts.minute)

\* libreview.ts 211-247
MatchTimestamp ==
  /\ tspc = "call"
  /\ tsInput # ""
  /\ TimestampMatch(tsInput).found
  /\ tsLocals' = LocalsOfMatch(TimestampMatch(tsInput))
  /\ tspc' = "matched"
  /\ UNCHANGED <<tsInput, tsResult, parserVars, waveVars, synthesisVars>>

\* libreview.ts 249
ConstructDate ==
  /\ tspc = "matched"
  /\ tsResult' = [isNull |-> FALSE,
                  time |-> NewDate(tsLocals.year, tsLocals.month, tsLocals.day,
                                   tsLocals.hour, tsLocals.minute)]
  /\ tspc' = "done"
  /\ UNCHANGED <<tsInput, tsLocals, parserVars, waveVars, synthesisVars>>

\* libreview.ts 252-258
NativeFallback ==
  /\ tspc = "call"
  /\ tsInput # ""
  /\ ~TimestampMatch(tsInput).found
  /\ tsResult' = NativeDateParse(tsInput)
  /\ tspc' = "done"
  /\ UNCHANGED <<tsInput, tsLocals, parserVars, waveVars, synthesisVars>>

NextTimestamp ==
  \/ ReturnNullTimestamp
  \/ MatchTimestamp
  \/ ConstructDate
  \/ NativeFallback

SpecTimestamp == InitTimestamp /\ [][NextTimestamp]_vars

(***************************************************************************)
(* generateWavetable and normalizeToPhysiologicalRange on one day          *)
(***************************************************************************)
\* The most readings of a short day.
MaxReadings == 3

\* The glucose values of the short days: below, within and at the end of
\* the physiological range, and the Infinity that parseFloat reads from the
\* text "Infinity".
WaveValues == {RInt(30), RInt(110), RInt(400), PosInfinity}

\* The long days: about WAVETABLE_SIZE readings, flat, rising and falling
\* in a saw, or alternating.
LongLengths == {WAVETABLE_SIZE - 1, WAVETABLE_SIZE, WAVETABLE_SIZE + 1}
FlatValues(n) == [i \in 1..n |-> RInt(110)]
SawValues(n) == [i \in 1..n |-> RInt(40 + ((7 * i) % 361))]
AlternatingValues(n) == [i \in 1..n |-> IF i % 2 = 1 THEN RInt(30) ELSE RInt(500)]

DayValues ==
  BoundedSeqs(WaveValues, MaxReadings)
  \cup { FlatValues(n) : n \in LongLengths }
  \cup { SawValues(n) : n \in LongLengths }
  \cup { AlternatingValues(n) : n \in LongLengths }

\* A day of readings five minutes apart with the given values.
DayOfValues(values) ==
  [date |-> "2024-06-01",
   readings |-> [i \in 1..Len(values) |->
                   [timestamp |-> NewDate(2024, 5, 1, 0, 5 * i), value |-> values[i],
                    recordType |-> 0]],
   wavetable |-> NullWavetable,
   stats |-> StatsOfValues(values)]

InitWave ==
  /\ \E values \in DayValues : dayData = DayOfValues(values)
  /\ wpc = "call"
  /\ normalized = << >>
  /\ wavetable = << >>
  /\ physiological = << >>
  /\ ParserIdle
  /\ TimestampIdle
  /\ SynthesisIdle

\* part_000 162-164
ReturnSilence ==
  /\ wpc = "call"
  /\ Len(dayData.readings) = 0
  /\ wavetable' = ZeroArray(WAVETABLE_SIZE)
  /\ wpc' = "done"
  /\ UNCHANGED <<dayData, normalized, physiological, parserVars, timestampVars, synthesisVars>>

\* part_000 167-170
Normalize ==
  /\ wpc = "call"
  /\ Len(dayData.readings) # 0
  /\ normalized' = normalizeGlucoseValues(ReadingValues(dayData.readings))
  /\ wpc' = "normalized"
  /\ UNCHANGED <<dayData, wavetable, physiological, parserVars, timestampVars, synthesisVars>>

\* part_000 173
Resample ==
  /\ wpc = "normalized"
  /\ wavetable' = resampleToWavetableSize(normalized, WAVETABLE_SIZE)
  /\ wpc' = "resampled"
  /\ UNCHANGED <<dayData, normalized, physiological, parserVars, timestampVars, synthesisVars>>

\* part_000 176-181
Smooth ==
  /\ wpc = "resampled"
  /\ wavetable' = smoothWavetable(wavetable, 2)
  /\ wpc' = "done"
  /\ UNCHANGED <<dayData, normalized, physiological, parserVars, timestampVars, synthesisVars>>

\* part_000 218-232, on the values of the day.
NormalizePhysiological ==
  /\ wpc = "call"
  /\ physiological' = normalizeToPhysiologicalRange(ReadingValues(dayData.readings))
  /\ wpc' = "physiological"
  /\ UNCHANGED <<dayData, normalized, wavetable, parserVars, timestampVars, synthesisVars>>

NextWave ==
  \/ ReturnSilence
  \/ Normalize
  \/ Resample
  \/ Smooth
  \/ NormalizePhysiological

SpecWave == InitWave /\ [][NextWave]_vars

(***************************************************************************)
(* computePartialsFromWavetable on one wavetable                           *)
(***************************************************************************)
\* The most partials asked of a short wavetable (besides the default 64).
MaxPartials == 4

\* The short wavetables: 1, 2 or 4 samples, where every harmonic falls on
\* quarter turns, with the samples below, and magnitudes that are rational.
ShortLengths == {1, 2, 4}
ShortSamples == {Zero, One, RInt(-1), Rat(1, 2)}
HasRationalMagnitudes(w) ==
  Len(w) = 4 =>
    IsSquare(RAdd(RMul(RSub(w[1], w[3]), RSub(w[1], w[3])),
                  RMul(RSub(w[2], w[4]), RSub(w[2], w[4]))))
ShortWavetables ==
  { w \in UNION { [1..len -> ShortSamples] : len \in ShortLengths } :
      HasRationalMagnitudes(w) }
\* The wavetables of WAVETABLE_SIZE samples: silence, NaN throughout (the
\* wavetable of a day with an infinite reading), and two that are 0 but at
\* the quarters of the cycle.
NaNArray(size) == [i \in 1..size |-> NaN]
QuarterArray(a, b, c, d) ==
  [i \in 1..WAVETABLE_SIZE |->
     CASE i = 1 -> a
       [] i = (WAVETABLE_SIZE \div 4) + 1 -> b
       [] i = (WAVETABLE_SIZE \div 2) + 1 -> c
       [] i = 3 * (WAVETABLE_SIZE \div 4) + 1 -> d
       [] OTHER -> Zero]
LongWavetables ==
  { ZeroArray(WAVETABLE_SIZE), NaNArray(WAVETABLE_SIZE),
    QuarterArray(One, Zero, RInt(-1), Zero),
    QuarterArray(One, RInt(-1), One, RInt(-1)) }

InitPartials ==
  /\ \/ /\ ptWavetable \in ShortWavetables
        /\ numPartials \in (0..MaxPartials) \cup {DEFAULT_NUM_PARTIALS}
     \/ /\ ptWavetable \in LongWavetables
        /\ numPartials = DEFAULT_NUM_PARTIALS
  /\ ppc = "call"
  /\ partials = << >>
  /\ ptResult = << >>
  /\ ParserIdle
  /\ TimestampIdle
  /\ WaveIdle
  /\ FeaturesIdle
  /\ DisplayIdle
  /\ ComponentsIdle

\* part_000 289-306
ComputeMagnitudes ==
  /\ ppc = "call"
  /\ partials' = HarmonicMagnitudes(ptWavetable, numPartials)
  /\ ppc' = "magnitudes"
  /\ UNCHANGED <<ptWavetable, numPartials, ptResult, parserVars, timestampVars, waveVars,
                 featureVars, displayVars, componentVars>>

\* part_000 309-310
NormalizePartials ==
  /\ ppc = "magnitudes"
  /\ ptResult' = DividedBy(partials, FundamentalOf(partials))
  /\ ppc' = "done"
  /\ UNCHANGED <<ptWavetable, numPartials, partials, parserVars, timestampVars, waveVars,
                 featureVars, displayVars, componentVars>>

NextPartials ==
  \/ ComputeMagnitudes
  \/ NormalizePartials

SpecPartials == InitPartials /\ [][NextPartials]_vars

(***************************************************************************)
(* combineGlucoseStats, normalizeGlucoseStat and computeVolatility         *)
(***************************************************************************)
\* The most descriptors combined, the greatest stat normalized (the stats
\* go by halves from -10 up to it), and the most readings of a day whose
\* volatility is computed.
MaxStatsDays == 2
MaxStatValue == 200
MaxVolReadings == 4

\* The descriptors of some days: a day in range, a day of one reading, a
\* day out of range, and the day whose single reading is Infinity.
StatsCatalogue ==
  { [min |-> RInt(80), max |-> RInt(160), avg |-> RInt(110), timeInRange |-> RInt(100),
     volatility |-> Rat(45, 2)],
    [min |-> RInt(95), max |-> RInt(95), avg |-> RInt(95), timeInRange |-> RInt(100),
     volatility |-> Zero],
    [min |-> RInt(40), max |-> RInt(310), avg |-> Rat(3811, 20), timeInRange |-> Rat(100, 3),
     volatility |-> RInt(61)],
    [min |-> PosInfinity, max |-> PosInfinity, avg |-> PosInfinity, timeInRange |-> Zero,
     volatility |-> Zero] }
StatValues ==
  { Rat(k, 2) : k \in (-20)..(2 * MaxStatValue) } \cup {NaN, PosInfinity, NegInfinity}
StatTypes == {"volatility", "average", "timeInRange", "rateOfChange"}
\* The days whose volatility is computed: readings five minutes apart, with
\* values whose standard deviation is rational, or with an infinite value.
VolValues == {RInt(100), RInt(120), RInt(140), PosInfinity}
HasRationalDeviation(values) ==
  \/ Len(values) < 2
  \/ \E i \in 1..Len(values) : values[i].d = 0
  \/ IsSquare(MeanOf(SquaredDiffs(values, MeanOf(values))))
VolReadingsOf(values) ==
  [i \in 1..Len(values) |->
     [timestamp |-> NewDate(2024, 5, 1, 0, 5 * i), value |-> values[i], recordType |-> 0]]
VolDays ==
  { VolReadingsOf(values) :
      values \in { v \in BoundedSeqs(VolValues, MaxVolReadings) : HasRationalDeviation(v) } }

\* One of the three functions is about to be called.
InitFeatures ==
  /\ \/ /\ fpc = "combine"
        /\ statsArray \in BoundedSeqs(StatsCatalogue, MaxStatsDays)
        /\ statValue = Zero
        /\ statType = ""
        /\ volReadings = << >>
     \/ /\ fpc = "normalize"
        /\ statsArray = << >>
        /\ statValue \in StatValues
        /\ statType \in StatTypes
        /\ volReadings = << >>
     \/ /\ fpc = "volatility"
        /\ statsArray = << >>
        /\ statValue = Zero
        /\ statType = ""
        /\ volReadings \in VolDays
  /\ combined = NoStats
  /\ statResult = Zero
  /\ volatility = Zero
  /\ ParserIdle
  /\ TimestampIdle
  /\ WaveIdle
  /\ PartialsIdle
  /\ DisplayIdle
  /\ ComponentsIdle

\* effects-config.ts 345-369
CombineGlucoseStats ==
  /\ fpc = "combine"
  /\ combined' = combineGlucoseStats(statsArray)
  /\ fpc' = "combined"
  /\ UNCHANGED <<statsArray, statValue, statType, statResult, volReadings, volatility,
                 parserVars, timestampVars, waveVars, partialsVars, displayVars,
                 componentVars>>

\* effects-config.ts 381-411
NormalizeGlucoseStat ==
  /\ fpc = "normalize"
  /\ statResult' = normalizeGlucoseStat(statValue, statType)
  /\ fpc' = "normalized"
  /\ UNCHANGED <<statsArray, combined, statValue, statType, volReadings, volatility,
                 parserVars, timestampVars, waveVars, partialsVars, displayVars,
                 componentVars>>

\* effects-config.ts 312-325
ComputeVolatility ==
  /\ fpc = "volatility"
  /\ volatility' = computeVolatility(volReadings)
  /\ fpc' = "computed"
  /\ UNCHANGED <<statsArray, combined, statValue, statType, statResult, volReadings,
                 parserVars, timestampVars, waveVars, partialsVars, displayVars,
                 componentVars>>

NextFeatures ==
  \/ CombineGlucoseStats
  \/ NormalizeGlucoseStat
  \/ ComputeVolatility

SpecFeatures == InitFeatures /\ [][NextFeatures]_vars

(***************************************************************************)
(* getWaveformForDisplay on wavetables of a few lengths                    *)
(***************************************************************************)
\* The most points asked for of every wavetable.
MaxPoints == 98
\* The lengths of the short wavetables.
DisplayLengths == {1, 2, 3}
\* A wavetable whose samples all differ, so that a value tells its index.
RampWavetable(length) == [k \in 1..length |-> Rat(k - 1, length)]
\* The point counts asked for of a wavetable of WAVETABLE_SIZE samples beyond
\* MaxPoints (the 60 of the day list is below it): the default, the length
\* and one more.
LongPoints == {DEFAULT_POINTS, WAVETABLE_SIZE, WAVETABLE_SIZE + 1}
DisplayCalls ==
  ({ RampWavetable(length) : length \in DisplayLengths \cup {WAVETABLE_SIZE} }
     \X (0..MaxPoints))
  \cup ({RampWavetable(WAVETABLE_SIZE)} \X LongPoints)

InitDisplay ==
  /\ \E call \in DisplayCalls :
       /\ dispWavetable = call[1]
       /\ points = call[2]
  /\ dpc = "call"
  /\ dispResult = << >>
  /\ ParserIdle
  /\ TimestampIdle
  /\ WaveIdle
  /\ PartialsIdle
  /\ FeaturesIdle
  /\ ComponentsIdle

\* part_000 325-335
GetWaveformForDisplay ==
  /\ dpc = "call"
  /\ dispResult' = getWaveformForDisplay(dispWavetable, points)
  /\ dpc' = "done"
  /\ UNCHANGED <<dispWavetable, points, parserVars, timestampVars, waveVars,
                 partialsVars, featureVars, componentVars>>

NextDisplay == GetWaveformForDisplay

SpecDisplay == InitDisplay /\ [][NextDisplay]_vars

(***************************************************************************)
(* resampleToWavetableSize on sources and targets of a few sizes           *)
(***************************************************************************)
\* The longest source and the largest target.
MaxSourceLength == 3
MaxTargetSize == 5
\* The samples of a source: normalized values, and the NaN that
\* normalizeGlucoseValues gives for an infinite reading.
ResampleSamples == {RInt(-1), Zero, Rat(1, 2), One, NaN}
\* Sources resampled to WAVETABLE_SIZE, as generateWavetable does.
FullSizeSources == { <<RInt(-1), Zero, One>>, <<RInt(-1), NaN>>, <<One, Zero>> }
ResampleCalls ==
  (BoundedSeqs(ResampleSamples, MaxSourceLength) \X (0..MaxTargetSize))
  \cup (FullSizeSources \X {WAVETABLE_SIZE})

InitResample ==
  /\ \E call \in ResampleCalls :
       /\ rsValues = call[1]
       /\ targetSize = call[2]
  /\ rspc = "call"
  /\ rsResult = << >>
  /\ ResampleRestIdle

\* part_000 238-261
ResampleToWavetableSize ==
  /\ rspc = "call"
  /\ rsResult' = resampleToWavetableSize(rsValues, targetSize)
  /\ rspc' = "done"
  /\ UNCHANGED <<rsValues, targetSize, resampleRest>>

NextResample == ResampleToWavetableSize

SpecResample == InitResample /\ [][NextResample]_vars

(***************************************************************************)
(* smoothWavetable on its own, one step for each run of the body of its    *)
(* inner loop and one for each wavetable.set(temp).                        *)
(***************************************************************************)
\* The longest wavetable that is smoothed.
MaxSmoothLength == 3
\* The samples of a wavetable: normalized values, and the NaN that
\* normalizeGlucoseValues gives for an infinite reading.
SmoothSamples == {RInt(-1), Zero, Rat(1, 2), One, NaN}
SmoothPassCounts == {0, 1, DEFAULT_PASSES}

InitSmooth ==
  /\ smInput \in BoundedSeqs(SmoothSamples, MaxSmoothLength)
  /\ smWavetable = smInput
  /\ smPasses \in SmoothPassCounts
  /\ temp = [k \in 1..Len(smInput) |-> Zero]
  /\ smPass = 0
  /\ smIndex = 0
  /\ smpc = "loop"
  /\ SmoothRestIdle

\* part_000 269-276: the body of the inner loop
SmoothStore ==
  /\ smpc = "loop"
  /\ smPass < smPasses
  /\ smIndex < Len(smWavetable)
  /\ smWavetable' = AfterStore(smWavetable, temp, smIndex).wavetable
  /\ temp' = AfterStore(smWavetable, temp, smIndex).temp
  /\ smIndex' = smIndex + 1
  /\ UNCHANGED <<smInput, smPasses, smPass, smpc, smoothRest>>

\* part_000 279: wavetable.set(temp), and the next pass
SmoothCopyBack ==
  /\ smpc = "loop"
  /\ smPass < smPasses
  /\ smIndex = Len(smWavetable)
  /\ smWavetable' = temp
  /\ smPass' = smPass + 1
  /\ smIndex' = 0
  /\ UNCHANGED <<smInput, smPasses, temp, smpc, smoothRest>>

\* part_000 268: the outer loop ends
SmoothReturn ==
  /\ smpc = "loop"
  /\ smPass = smPasses
  /\ smpc' = "done"
  /\ UNCHANGED <<smInput, smWavetable, smPasses, temp, smPass, smIndex, smoothRest>>

NextSmooth == SmoothStore \/ SmoothCopyBack \/ SmoothReturn

SpecSmooth == InitSmooth /\ [][NextSmooth]_vars

(***************************************************************************)
(* One turn of the loop of parseGlucoseReadings on its own: the glucose    *)
(* column of a row, and the reading of the row.                            *)
(***************************************************************************)
\* The most glucose columns of a row.
MaxColumns == 3
\* Names of columns: of the list of findGlucoseColumn, found by the partial
\* match, and of neither kind.
ColumnNames ==
  { "Historic Glucose mg/dL", "Scan Glucose mg/dL", "Historic Glucose (mg/dL)",
    "Historic Glucose", "SCAN GLUCOSE MG/DL", "Glucose" }
ColumnValues == { "", "120" }
\* The rows of a timestamp column and up to MaxColumns columns of distinct
\* names.
IsRowOfDistinctKeys(cols) ==
  \A i, j \in 1..Len(cols) : cols[i].key = cols[j].key => i = j
ColumnRows ==
  { << [key |-> "Device Timestamp", value |-> "02-06-2024 08:30"] >> \o cols :
      cols \in { c \in BoundedSeqs([key : ColumnNames, value : ColumnValues],
                                  MaxColumns) : IsRowOfDistinctKeys(c) } }

InitColumn ==
  /\ gcRow \in ColumnRows
  /\ gcUnit = detectUnit(RowKeys(gcRow))
  /\ gcCol = << >>
  /\ gcReadings = << >>
  /\ gcpc = "find"
  /\ ColumnRestIdle

\* libreview.ts 166: const glucoseCol = findGlucoseColumn(row)
FindGlucoseColumn ==
  /\ gcpc = "find"
  /\ gcCol' = findGlucoseColumn(gcRow)
  /\ gcpc' = "read"
  /\ UNCHANGED <<gcRow, gcUnit, gcReadings, columnRest>>

\* libreview.ts 167-191: the rest of the turn
ReadGlucoseColumn ==
  /\ gcpc = "read"
  /\ gcReadings' = ReadColumns(gcRow, gcCol, findTimestampColumn(gcRow), gcUnit,
                               gcReadings)
  /\ gcpc' = "done"
  /\ UNCHANGED <<gcRow, gcUnit, gcCol, columnRest>>

NextColumn == FindGlucoseColumn \/ ReadGlucoseColumn

SpecColumn == InitColumn /\ [][NextColumn]_vars

(***************************************************************************)
(* PianoKeyboard (part_001 98-175): the handlers of the keys and           *)
(* clearAllActive.  A keyboard is the record of activeNotes, activeKeys    *)
(* and lastCall, with the calls made to the synth since the handler began. *)
(***************************************************************************)
\* The keys of the keyboard that are played.
MaxKeys == 3
NoteNames == << "C3", "C#3", "D3", "D#3", "E3", "F3", "F#3", "G3", "G#3", "A3",
                "A#3", "B3" >>
PianoNotes == { NoteNames[k] : k \in 1..MaxKeys }
\* MouseEvent.buttons: no button, the left one, the right one
MouseButtons == {0, 1, 2}

ThePiano == [activeNotes |-> activeNotes, activeKeys |-> activeKeys,
             lastCall |-> lastCall, calls |-> << >>]

\* part_001 160-165
setKeyActive(piano, note, active) ==
  [piano EXCEPT !.activeKeys = IF active THEN @ \cup {note} ELSE @ \ {note}]
\* part_001 136-143
handleNoteOn(piano, note) ==
  IF note \in piano.activeNotes THEN piano
  ELSE setKeyActive(
         [piano EXCEPT !.calls = Append(@, [op |-> "noteOn", note |-> note]),
                       !.lastCall[note] = "noteOn",
                       !.activeNotes = @ \cup {note}],
         note, TRUE)
\* part_001 148-155
handleNoteOff(piano, note) ==
  IF note \notin piano.activeNotes THEN piano
  ELSE setKeyActive(
         [piano EXCEPT !.calls = Append(@, [op |-> "noteOff", note |-> note]),
                       !.lastCall[note] = "noteOff",
                       !.activeNotes = @ \ {note}],
         note, FALSE)
\* part_001 170-175
clearAllActive(piano) ==
  [piano EXCEPT !.activeKeys = @ \ piano.activeNotes, !.activeNotes = {}]

\* The keyboard after a handler has run.
PianoBecomes(piano) ==
  /\ activeNotes' = piano.activeNotes
  /\ activeKeys' = piano.activeKeys
  /\ lastCall' = piano.lastCall
  /\ synthCalls' = piano.calls
  /\ UNCHANGED pianoRest

InitPiano ==
  /\ activeNotes = {}
  /\ activeKeys = {}
  /\ lastCall = [note \in PianoNotes |-> "none"]
  /\ synthCalls = << >>
  /\ PianoRestIdle

\* part_001 98-101
MouseDown ==
  \E note \in PianoNotes :
    /\ PianoBecomes(handleNoteOn(ThePiano, note))
\* part_001 103-105
MouseUp ==
  \E note \in PianoNotes :
    /\ PianoBecomes(handleNoteOff(ThePiano, note))
\* part_001 107-111
MouseLeave ==
  \E note \in PianoNotes :
    /\ PianoBecomes(IF note \in activeNotes THEN handleNoteOff(ThePiano, note)
                    ELSE ThePiano)
\* part_001 113-117
MouseEnter ==
  \E note \in PianoNotes : \E buttons \in MouseButtons :
    /\ PianoBecomes(IF buttons = 1 THEN handleNoteOn(ThePiano, note) ELSE ThePiano)
\* part_001 120-123
TouchStart ==
  \E note \in PianoNotes :
    /\ PianoBecomes(handleNoteOn(ThePiano, note))
\* part_001 125-128
TouchEnd ==
  \E note \in PianoNotes :
    /\ PianoBecomes(handleNoteOff(ThePiano, note))
\* part_001 170-175
ClearAllActive ==
  /\ PianoBecomes(clearAllActive(ThePiano))

NextPiano ==
  \/ MouseDown
  \/ MouseUp
  \/ MouseLeave
  \/ MouseEnter
  \/ TouchStart
  \/ TouchEnd
  \/ ClearAllActive

SpecPiano == InitPiano /\ [][NextPiano]_vars

(***************************************************************************)
(* DaySelector (part_001 195-382).  null is the empty sequence, a value v  *)
(* that may be null the sequence of v alone.                               *)
(***************************************************************************)
\* The most days of a dataset that is loaded, and the greatest oscIndex.
MaxSelectorDays == 2
MaxOscIndex == 1
SelectorDates == { "2024-05-31", "2024-06-01", "2024-06-02" }
OscIndexes == 0..MaxOscIndex
\* Datasets of up to MaxSelectorDays days, in any order of insertion.
DaysOfKeys(keys) == [k \in 1..Len(keys) |-> [NoDay EXCEPT !.date = keys[k]]]
SelectorDatasets ==
  { [EmptyData EXCEPT !.days = DaysOfKeys(keys)] :
      keys \in { ks \in BoundedSeqs(SelectorDates, MaxSelectorDays) :
                  \A i, j \in 1..Len(ks) : ks[i] = ks[j] => i = j } }

TheSelector ==
  [data |-> selData, selectedDate |-> selectedDate,
   onSelectCallback |-> onSelectCallback, selectingForOsc |-> selectingForOsc,
   selectingClass |-> selectingClass, items |-> dayItems,
   selected |-> selectedItems, calls |-> << >>, events |-> << >>]

Reversed(seq) == [k \in 1..Len(seq) |-> seq[Len(seq) + 1 - k]]
\* Array.from(data.days.keys()).sort().reverse()
DatesLatestFirst(ds) == Reversed(SortStrings(KeysOf(ds), 1, << >>))
DayOf(ds, date) == ds[CHOOSE k \in 1..Len(ds) : ds[k].date = date]

\* part_001 226-229
clearOscSelection(sel) ==
  [sel EXCEPT !.selectingForOsc = << >>, !.selectingClass = FALSE]
\* part_001 255-287: the day items are made anew
render(sel) ==
  [sel EXCEPT !.items = IF sel.data = << >> THEN << >>
                        ELSE DatesLatestFirst(sel.data[1].days),
              !.selected = {}]
\* part_001 368-372
AfterCallback(sel, date, oscIndex) ==
  IF oscIndex # << >>
  THEN [clearOscSelection(sel) EXCEPT
          !.events = Append(@, [type |-> "osc-day-selected",
                                oscIndex |-> oscIndex[1], date |-> date])]
  ELSE sel
\* part_001 366: this.onSelectCallback?.(date, dayData, oscIndex)
WithCallback(sel, date, day, oscIndex) ==
  IF sel.onSelectCallback = << >> THEN sel
  ELSE [sel EXCEPT !.calls = Append(@, [date |-> date, dayData |-> day,
                                        oscIndex |-> oscIndex])]
\* part_001 355-362
WithSelection(sel, date) ==
  [sel EXCEPT !.selectedDate = << date >>,
              !.selected = { k \in 1..Len(sel.items) : sel.items[k] = date }]
\* A faulty variant: the mode is taken as off when the oscIndex is 0.
selectDate_Truthy(sel, date) ==
  IF sel.data = << >> THEN sel
  ELSE IF ~HasDay(sel.data[1].days, date) THEN sel
  ELSE AfterCallback(
         WithCallback(WithSelection(sel, date), date,
                      DayOf(sel.data[1].days, date), sel.selectingForOsc),
         date,
         IF sel.selectingForOsc = << 0 >> THEN << >> ELSE sel.selectingForOsc)
\* part_001 349-373
selectDate(sel, date) ==
  IF sel.data = << >> THEN sel
  ELSE IF ~HasDay(sel.data[1].days, date) THEN sel
  ELSE AfterCallback(
         WithCallback(WithSelection(sel, date), date,
                      DayOf(sel.data[1].days, date), sel.selectingForOsc),
         date, sel.selectingForOsc)
\* part_001 241-243
SelectLatest(sel, dates) ==
  IF Len(dates) > 0 THEN selectDate(sel, dates[1]) ELSE sel
\* part_001 234-244
setData(sel, newData) ==
  SelectLatest(render([sel EXCEPT !.data = << newData >>]),
               DatesLatestFirst(newData.days))
\* part_001 378-382
clear(sel) == render([sel EXCEPT !.data = << >>, !.selectedDate = << >>])

\* The selector after a handler or a method has run.
SelectorBecomes(sel) ==
  /\ selData' = sel.data
  /\ selectedDate' = sel.selectedDate
  /\ onSelectCallback' = sel.onSelectCallback
  /\ selectingForOsc' = sel.selectingForOsc
  /\ selectingClass' = sel.selectingClass
  /\ dayItems' = sel.items
  /\ selectedItems' = sel.selected
  /\ callbackCalls' = sel.calls
  /\ dispatched' = sel.events
  /\ UNCHANGED selectorRest

\* part_001 195-214: the fields and the constructor
InitSelector ==
  /\ selData = << >>
  /\ selectedDate = << >>
  /\ onSelectCallback = << >>
  /\ selectingForOsc = << >>
  /\ selectingClass = FALSE
  /\ dayItems = << >>
  /\ selectedItems = {}
  /\ callbackCalls = << >>
  /\ dispatched = << >>
  /\ SelectorRestIdle

\* part_001 210-213: the listener of osc-select-mode
OscSelectMode(oscIndex) ==
  /\ SelectorBecomes([TheSelector EXCEPT !.selectingForOsc = << oscIndex >>,
                                         !.selectingClass = TRUE])
\* part_001 219-221
OnSelect ==
  /\ SelectorBecomes([TheSelector EXCEPT !.onSelectCallback = << "callback" >>])
ClearOscSelection ==
  /\ SelectorBecomes(clearOscSelection(TheSelector))
SetData(newData) ==
  /\ SelectorBecomes(setData(TheSelector, newData))
\* selectDate, called from outside or by the click on a day item (part_001 317)
SelectDate(date) ==
  /\ SelectorBecomes(selectDate(TheSelector, date))
Clear ==
  /\ SelectorBecomes(clear(TheSelector))

NextSelector ==
  \/ \E oscIndex \in OscIndexes : OscSelectMode(oscIndex)
  \/ OnSelect
  \/ ClearOscSelection
  \/ \E newData \in SelectorDatasets : SetData(newData)
  \/ \E date \in SelectorDates : SelectDate(date)
  \/ Clear

SpecSelector == InitSelector /\ [][NextSelector]_vars

(***************************************************************************)
(* The playhead of WaveformDisplay (part_002 334-394).  The browser keeps  *)
(* the requests of an animation frame that are pending and runs the        *)
(* callback of one of them at a time.                                      *)
(***************************************************************************)
\* The most requests of an animation frame that are made.
MaxFrames == 6
\* 0.005, in thousandths
PLAYHEAD_STEP == 5

TheDisplay ==
  [isPlaying |-> isPlaying, animationFrame |-> animationFrame,
   playheadPosition |-> playheadPosition, pending |-> pendingFrames,
   next |-> nextFrame, drawn |-> << >>]

\* part_002 393: this.animationFrame = requestAnimationFrame(...)
RequestFrame(display) ==
  [display EXCEPT !.animationFrame = << display.next >>,
                  !.pending = @ \cup {display.next},
                  !.next = @ + 1]
\* part_002 355-394
animatePlayhead(display) ==
  IF ~display.isPlaying THEN display
  ELSE RequestFrame(
         [display EXCEPT !.playheadPosition = (@ + PLAYHEAD_STEP) % 1000,
                         !.drawn = @ \o << "advance", "draw" >>])
\* part_002 334-337
startPlayhead(display) == animatePlayhead([display EXCEPT !.isPlaying = TRUE])
\* part_002 344-347
CancelFrame(display) ==
  IF display.animationFrame # << >>
  THEN [display EXCEPT !.pending = @ \ {display.animationFrame[1]},
                       !.animationFrame = << >>]
  ELSE display
\* part_002 342-350
stopPlayhead(display) ==
  [CancelFrame([display EXCEPT !.isPlaying = FALSE]) EXCEPT
     !.playheadPosition = 0, !.drawn = @ \o << "draw" >>]

\* The display after a method or a callback has run.
DisplayBecomes(display) ==
  /\ isPlaying' = display.isPlaying
  /\ animationFrame' = display.animationFrame
  /\ playheadPosition' = display.playheadPosition
  /\ pendingFrames' = display.pending
  /\ nextFrame' = display.next
  /\ drawn' = display.drawn
  /\ UNCHANGED playheadRest

\* part_002 11-13
InitPlayhead ==
  /\ isPlaying = FALSE
  /\ animationFrame = << >>
  /\ playheadPosition = 0
  /\ pendingFrames = {}
  /\ nextFrame = 1
  /\ drawn = << >>
  /\ PlayheadRestIdle

StartPlayhead ==
  /\ nextFrame <= MaxFrames
  /\ DisplayBecomes(startPlayhead(TheDisplay))
StopPlayhead ==
  /\ DisplayBecomes(stopPlayhead(TheDisplay))
\* The browser runs the callback of a pending request: () => this.animatePlayhead()
FrameCallback(frame) ==
  /\ frame \in pendingFrames
  /\ isPlaying => nextFrame <= MaxFrames
  /\ DisplayBecomes(animatePlayhead([TheDisplay EXCEPT !.pending = @ \ {frame}]))

NextPlayhead ==
  \/ StartPlayhead
  \/ StopPlayhead
  \/ \E frame \in pendingFrames : FrameCallback(frame)

SpecPlayhead == InitPlayhead /\ [][NextPlayhead]_vars

(***************************************************************************)
(* The drag handlers of EffectsPanel (effects-panel.ts 210-244).  The      *)
(* effects chain is not part of the sources: getOrder() returns its order, *)
(* and reorder(newOrder) is taken to make newOrder its order and to call   *)
(* the panel's onOrderChange callback, which renders the modules anew.     *)
(***************************************************************************)
\* The effects of the chain.
MaxEffects == 3
\* effects-config.ts 7-23
DEFAULT_ORDER ==
  << "compressor", "eq3", "bitcrusher", "distortion", "autowah", "autofilter",
     "phaser", "chorus", "tremolo", "vibrato", "freqshift", "pitchshift",
     "delay", "reverb", "stereowidener" >>
EffectIds == { DEFAULT_ORDER[k] : k \in 1..MaxEffects }

ThePanel ==
  [order |-> fxOrder, draggedEffect |-> draggedEffect, dragging |-> draggingClass,
   dragOver |-> dragOverClass, calls |-> << >>]

\* currentOrder.filter(id => id !== this.draggedEffect)
WithoutEffect(currentOrder, dragged) ==
  LET Other(id) == id # dragged IN SelectSeq(currentOrder, Other)
\* newOrder.indexOf(effectId), from 0; -1 when it is not there
IndexOfEffect(newOrder, effectId) ==
  IF \E k \in 1..Len(newOrder) : newOrder[k] = effectId
  THEN SetMin({ k \in 1..Len(newOrder) : newOrder[k] = effectId }) - 1
  ELSE -1
\* newOrder.splice(insertIndex, 0, dragged): a negative index counts from
\* the end, and an index beyond the end is the end.
SpliceIn(newOrder, insertIndex, dragged) ==
  LET at == IF insertIndex < 0
            THEN (IF Len(newOrder) + insertIndex < 0 THEN 0
                  ELSE Len(newOrder) + insertIndex)
            ELSE IF insertIndex > Len(newOrder) THEN Len(newOrder)
            ELSE insertIndex
  IN  SubSeq(newOrder, 1, at) \o << dragged >> \o SubSeq(newOrder, at + 1, Len(newOrder))
\* A faulty variant: the index is that of the module in the current order.
DropOrder_IndexInCurrent(currentOrder, dragged, effectId, dropBefore) ==
  SpliceIn(WithoutEffect(currentOrder, dragged),
           IndexOfEffect(currentOrder, effectId) + (IF dropBefore THEN 0 ELSE 1),
           dragged)
\* effects-panel.ts 237-240: the order passed to reorder
DropOrder(currentOrder, dragged, effectId, dropBefore) ==
  SpliceIn(WithoutEffect(currentOrder, dragged),
           IndexOfEffect(WithoutEffect(currentOrder, dragged), effectId)
             + (IF dropBefore THEN 0 ELSE 1),
           dragged)
NoDragOver == [id \in EffectIds |-> "none"]
\* reorder(newOrder), with the modules rendered anew (effects-panel.ts 53,
\* 79-85)
Reordered(panel, newOrder) ==
  [panel EXCEPT !.calls = Append(@, newOrder), !.order = newOrder,
                !.dragging = {}, !.dragOver = NoDragOver]
\* effects-panel.ts 230-243
drop(panel, effectId, dropBefore) ==
  IF panel.draggedEffect = << >> \/ panel.draggedEffect = << effectId >> THEN panel
  ELSE Reordered(panel, DropOrder(panel.order, panel.draggedEffect[1], effectId,
                                  dropBefore))

\* The panel after a handler has run.
PanelBecomes(panel) ==
  /\ fxOrder' = panel.order
  /\ draggedEffect' = panel.draggedEffect
  /\ draggingClass' = panel.dragging
  /\ dragOverClass' = panel.dragOver
  /\ reorderCalls' = panel.calls
  /\ UNCHANGED panelRest

InitPanel ==
  /\ fxOrder = SubSeq(DEFAULT_ORDER, 1, MaxEffects)
  /\ draggedEffect = << >>
  /\ draggingClass = {}
  /\ dragOverClass = NoDragOver
  /\ reorderCalls = << >>
  /\ PanelRestIdle

\* effects-panel.ts 211-216
DragStart(effectId) ==
  /\ PanelBecomes([ThePanel EXCEPT !.draggedEffect = << effectId >>,
                                   !.dragging = @ \cup {effectId}])
\* effects-panel.ts 217-221
DragEnd(effectId) ==
  /\ PanelBecomes([ThePanel EXCEPT !.draggedEffect = << >>,
                                   !.dragging = @ \ {effectId},
                                   !.dragOver = NoDragOver])
\* effects-panel.ts 222-228
DragOver(effectId, onLeftHalf) ==
  /\ PanelBecomes(IF draggedEffect = << effectId >> THEN ThePanel
                  ELSE [ThePanel EXCEPT !.dragOver[effectId] =
                                          IF onLeftHalf THEN "left" ELSE "right"])
\* effects-panel.ts 229
DragLeave(effectId) ==
  /\ PanelBecomes([ThePanel EXCEPT !.dragOver[effectId] = "none"])
\* effects-panel.ts 230-243
Drop(effectId, dropBefore) ==
  /\ PanelBecomes(drop(ThePanel, effectId, dropBefore))

NextPanel ==
  \/ \E effectId \in EffectIds : DragStart(effectId)
  \/ \E effectId \in EffectIds : DragEnd(effectId)
  \/ \E effectId \in EffectIds : \E onLeftHalf \in BOOLEAN : DragOver(effectId, onLeftHalf)
  \/ \E effectId \in EffectIds : DragLeave(effectId)
  \/ \E effectId \in EffectIds : \E dropBefore \in BOOLEAN : Drop(effectId, dropBefore)

SpecPanel == InitPanel /\ [][NextPanel]_vars

(***************************************************************************)
(* What the readings of a file should be, stated from its rows             *)
(***************************************************************************)
\* Whether none of the first 10 lines holds both "device" and "timestamp".
NoHeaderLine(fileLines) ==
  \A i \in 1..Len(fileLines) :
    i <= 10 => ~(/\ includes(toLowerCase(fileLines[i]), "device")
                 /\ includes(toLowerCase(fileLines[i]), "timestamp"))

\* The glucose field and the timestamp field of a row (the timestamp column
\* is the one of the first row); the empty string when there is no column.
FieldOfColumn(row, column) == IF column = << >> THEN "" ELSE RowGet(row, column[1])
GlucoseField(row) == FieldOfColumn(row, findGlucoseColumn(row))
TimestampField(row, allRows) == FieldOfColumn(row, findTimestampColumn(allRows[1]))

\* A row that should give a Reading.
AreGoodFields(glucose, timestamp) ==
  /\ glucose # ""
  /\ glucose # "Lo"
  /\ glucose # "Hi"
  /\ parseFloat(glucose) # NaN
  /\ ~parseTimestamp(timestamp).isNull
IsGoodRow(row, allRows) == AreGoodFields(GlucoseField(row), TimestampField(row, allRows))
GoodRowsOf(allRows) ==
  LET Good(row) == IsGoodRow(row, allRows) IN SelectSeq(allRows, Good)

\* Whether the header names mmol/L, in any case of the letters.
HeaderIsMmol(headerFields) ==
  \E k \in 1..Len(headerFields) : includes(toLowerCase(headerFields[k]), "mmol/l")

\* The Reading a good row should give, and those of all the good rows in
\* the order of the rows.
ExpectedOfFields(raw, timestamp, column, isMmol) ==
  [timestamp |-> timestamp.time,
   value |-> IF isMmol THEN RMul(raw, Rat(180182, 10000)) ELSE raw,
   recordType |-> IF includes(toLowerCase(column[1]), "scan") THEN 1 ELSE 0]
ExpectedReading(row, allRows, headerFields) ==
  ExpectedOfFields(parseFloat(GlucoseField(row)),
                   parseTimestamp(TimestampField(row, allRows)),
                   findGlucoseColumn(row), HeaderIsMmol(headerFields))
ExpectedOfGood(good, allRows, headerFields) ==
  [i \in 1..Len(good) |-> ExpectedReading(good[i], allRows, headerFields)]
ExpectedReadings(allRows, headerFields) ==
  ExpectedOfGood(GoodRowsOf(allRows), allRows, headerFields)

\* Two sequences with the same elements, each as often in one as in the other.
SameBag(s, t) ==
  /\ Len(s) = Len(t)
  /\ \A i \in 1..Len(s) :
       Cardinality({ j \in 1..Len(s) : s[j] = s[i] })
         = Cardinality({ j \in 1..Len(t) : t[j] = s[i] })

\* The readings of all the days, day after day.
RECURSIVE ReadingsOfDays(_)
ReadingsOfDays(ds) ==
  IF Len(ds) = 0 THEN << >> ELSE ds[1].readings \o ReadingsOfDays(Tail(ds))

\* The readings of a sequence that bear the timestamp t.
ReadingsAt(rs, t) == LET At(r) == r.timestamp = t IN SelectSeq(rs, At)

\* The zero-padded YYYY-MM-DD of a date of the years 1000 to 9999.
Digit(n) == SubSeq("0123456789", n + 1, n + 1)
TwoDigits(n) == Digit(n \div 10) \o Digit(n % 10)
KeyOfCivil(c) ==
  TwoDigits(c.year \div 100) \o TwoDigits(c.year % 100)
    \o "-" \o TwoDigits(c.month) \o "-" \o TwoDigits(c.day)
DateKey(date) == KeyOfCivil(CivilFromDays(date \div 86400))
ReadingsOn(rs, key) == LET On(r) == DateKey(r.timestamp) = key IN SelectSeq(rs, On)

(***************************************************************************)
(* C1                                                                      *)
(***************************************************************************)
\* C1: when none of the first 10 lines holds both "device" and "timestamp",
\* parseLibreViewCSV reports a failure and builds no dataset from the other
\* lines.  The code has no failing outcome (no throw, no error result), so
\* what is stated is the rest: from such a text no row, no reading and no
\* day is built.
C1_NoDatasetWithoutHeader ==
  (pc \in {"rows", "readings", "grouped"} /\ NoHeaderLine(lines))
    => (Len(rows) = 0 /\ Len(readings) = 0 /\ Len(days) = 0)

(***************************************************************************)
(* C2                                                                      *)
(***************************************************************************)
\* The readings are those of the good rows.
ReadingsAreOfGoodRows(good) ==
  /\ Len(readings) = Len(good)
  /\ SameBag(readings, ExpectedOfGood(good, rows, headers))
  /\ readings = parseGlucoseReadings(good, unit)

\* C2: a row gives a Reading if and only if its glucose field is not empty,
\* is neither "Lo" nor "Hi", parses as a number, and its timestamp resolves;
\* the other rows are dropped, and the readings are those of the input
\* without them.
C2_ReadingIffGoodRow ==
  pc = "readings" =>
    /\ \A i \in 1..Len(rows) :
         (Len(parseGlucoseReadings(<< rows[i] >>, unit)) = 1) <=> IsGoodRow(rows[i], rows)
    /\ ReadingsAreOfGoodRows(GoodRowsOf(rows))

\* A row that is "Lo", "Hi" or no number has been dropped, and a good row
\* after it has given its Reading.
C2_Witness ==
  /\ pc = "readings"
  /\ Len(readings) >= 1
  /\ \E i, j \in 1..Len(rows) :
       /\ i < j
       /\ ~IsGoodRow(rows[i], rows)
       /\ IsGoodRow(rows[j], rows)
       /\ GlucoseField(rows[i]) \in {"Lo", "Hi", "abc"}

(***************************************************************************)
(* C3                                                                      *)
(***************************************************************************)
\* The day and the month C3 names for the first two groups a and b.
DayOfGroups(a, b) == IF a > 12 THEN a ELSE IF b > 12 THEN b ELSE a
MonthOfGroups(a, b) == IF a > 12 THEN b ELSE IF b > 12 THEN a ELSE b
IsCalendarDate(year, month, day) ==
  month \in 1..12 /\ day \in 1..DaysInMonth(year, month)

\* C3: for A-B-C hh:mm with a four-digit C and A, B in 1..31, parseTimestamp
\* takes the year C, and the day A and month B if A > 12, else the month A
\* and day B if B > 12, else the day A and month B.  These are the year,
\* month and day it hands to new Date; when they name a date of the
\* calendar, they are the year, month and day of the Date returned.
C3_DayMonthChoice ==
  tspc \in {"matched", "done"} =>
    \A padded \in BOOLEAN : \A sep \in DateSeparators : \A a \in 1..MaxDateNumber :
      HasAt(tsInput, 1, DateField(a, padded) \o sep) =>
        \A b \in 1..MaxDateNumber :
          tsInput = DateText(a, b, sep, padded) =>
            /\ tsLocals.year = 2024
            /\ tsLocals.day = DayOfGroups(a, b)
            /\ tsLocals.month + 1 = MonthOfGroups(a, b)
            /\ (tspc = "done" /\ IsCalendarDate(2024, MonthOfGroups(a, b), DayOfGroups(a, b)))
                 => /\ ~tsResult.isNull
                    /\ getFullYear(tsResult.time) = 2024
                    /\ getMonth(tsResult.time) + 1 = MonthOfGroups(a, b)
                    /\ getDate(tsResult.time) = DayOfGroups(a, b)

\* The ambiguous 03-04-2024 has been read as the 3rd of April.
C3_Witness ==
  /\ tspc = "done"
  /\ tsInput = "03-04-2024 08:30"
  /\ getDate(tsResult.time) = 3
  /\ getMonth(tsResult.time) + 1 = 4

(***************************************************************************)
(* C4                                                                      *)
(***************************************************************************)
\* What each step of the pipeline does to the readings: parseGlucoseReadings
\* yields the expected ones, bucketing keeps them as a bag, the return and
\* generateAllWavetables keep them as they are.
C4_Step ==
  /\ (pc = "rows" /\ pc' = "readings")
       => SameBag(readings', ExpectedReadings(rows, headers))
  /\ (pc = "readings" /\ pc' = "grouped")
       => SameBag(ReadingsOfDays(days'), readings)
  /\ (pc = "grouped" /\ pc' = "returned")
       => ReadingsOfDays(data'.days) = ReadingsOfDays(days)
  /\ (pc = "returned" /\ pc' = "wavetables")
       => ReadingsOfDays(data'.days) = ReadingsOfDays(data.days)

IsSortedAndStable(rs, expected) ==
  /\ \A i \in 1..(Len(rs) - 1) : rs[i].timestamp <= rs[i + 1].timestamp
  /\ \A i \in 1..Len(rs) :
       ReadingsAt(rs, rs[i].timestamp) = ReadingsAt(expected, rs[i].timestamp)
AreSortedAndStable(ds, expected) ==
  \A k \in 1..Len(ds) : IsSortedAndStable(ds[k].readings, expected)

\* C5: in every day the readings are in non-decreasing order of timestamp,
\* and the readings of one timestamp are in the order of their rows.
C5_SortedAndStable ==
  pc = "grouped" => AreSortedAndStable(days, ExpectedReadings(rows, headers))

\* Rows out of order, two of them with the same timestamp and different values.
C5_Witness ==
  /\ pc = "grouped"
  /\ readings # ExpectedReadings(rows, headers)
  /\ \E k \in 1..Len(days) : \E i \in 1..(Len(days[k].readings) - 1) :
       /\ days[k].readings[i].timestamp = days[k].readings[i + 1].timestamp
       /\ days[k].readings[i].value # days[k].readings[i + 1].value

C7_WavetableLength == wpc = "done" => Len(wavetable) = WAVETABLE_SIZE

\* A day of more than 2048 readings has its wavetable.
C7_Witness ==
  /\ wpc = "done"
  /\ Len(dayData.readings) > WAVETABLE_SIZE
  /\ Len(wavetable) = WAVETABLE_SIZE

(***************************************************************************)
(* C8                                                                      *)
(***************************************************************************)
\* A day of no reading, of one reading, or of readings of one value.
IsFlatDay(day) ==
  \A i, j \in 1..Len(day.readings) : day.readings[i].value = day.readings[j].value

\* C8: for a day with no reading, one reading, or readings all of the same
\* value, every sample of the wavetable is exactly 0.
C8_FlatDayIsSilent ==
  (wpc = "done" /\ IsFlatDay(dayData))
    => \A i \in 1..Len(wavetable) : wavetable[i] = Zero

(***************************************************************************)
(* C9                                                                      *)
(***************************************************************************)
InUnitRange(x) == RLe(RInt(-1), x) /\ RLe(x, One)
AllInUnitRange(samples) == \A i \in 1..Len(samples) : InUnitRange(samples[i])

\* C9: every sample lies in [-1, 1]: after either normalisation, after the
\* resampling and after the smoothing; and the day-relative normalisation of
\* a day that is not flat puts its least value at -1 and its greatest at +1.
C9_SamplesInUnitRange ==
  /\ AllInUnitRange(normalized)
  /\ AllInUnitRange(wavetable)
  /\ AllInUnitRange(physiological)
  /\ (wpc = "normalized" /\ ~IsFlatDay(dayData))
       => \A i \in 1..Len(normalized) :
            /\ (\A j \in 1..Len(normalized) :
                  RLe(dayData.readings[i].value, dayData.readings[j].value))
                 => normalized[i] = RInt(-1)
            /\ (\A j \in 1..Len(normalized) :
                  RLe(dayData.readings[j].value, dayData.readings[i].value))
                 => normalized[i] = One

(***************************************************************************)
(* C10                                                                     *)
(***************************************************************************)
\* How many of the readings lie in 70..180, both ends included.
CountInRange(rs) ==
  Cardinality({ i \in 1..Len(rs) :
                  /\ rs[i].value.d > 0
                  /\ 70 * rs[i].value.d <= rs[i].value.n
                  /\ rs[i].value.n <= 180 * rs[i].value.d })

\* C10: the timeInRange of every day is 100 * (readings with
\* 70 <= value <= 180) / (readings), and lies between 0 and 100.
C10_TimeInRange ==
  pc = "grouped" =>
    \A k \in 1..Len(days) :
      /\ days[k].stats.timeInRange
           = Rat(100 * CountInRange(days[k].readings), Len(days[k].readings))
      /\ RLe(Zero, days[k].stats.timeInRange)
      /\ RLe(days[k].stats.timeInRange, RInt(100))

\* A day of 69.9, 70 and 180: two of three in range.
C10_Witness ==
  /\ pc = "grouped"
  /\ \E k \in 1..Len(days) :
       /\ Len(days[k].readings) = 3
       /\ \E i \in 1..3 : days[k].readings[i].value = RInt(70)
       /\ \E i \in 1..3 : days[k].readings[i].value = RInt(180)
       /\ \E i \in 1..3 : days[k].readings[i].value = Rat(699, 10)
       /\ days[k].stats.timeInRange = Rat(200, 3)

(***************************************************************************)
(* C11                                                                     *)
(***************************************************************************)
\* The values of the readings one after the other, and their sum from the
\* left.
RECURSIVE TotalOf(_)
TotalOf(rs) == IF Len(rs) = 0 THEN Zero ELSE RAdd(rs[1].value, TotalOf(Tail(rs)))
\* Whether x is a value of the readings and none of them is below it (above it).
IsLeastOf(x, rs) ==
  /\ \E i \in 1..Len(rs) : rs[i].value = x
  /\ \A i \in 1..Len(rs) : RLe(x, rs[i].value)
IsGreatestOf(x, rs) ==
  /\ \E i \in 1..Len(rs) : rs[i].value = x
  /\ \A i \in 1..Len(rs) : RLe(rs[i].value, x)
\* The stats a day of these readings should hold.
AreStatsOf(stats, rs) ==
  /\ IsLeastOf(stats.min, rs)
  /\ IsGreatestOf(stats.max, rs)
  /\ RMul(stats.avg, RInt(Len(rs))) = TotalOf(rs)
  /\ RLe(stats.min, stats.avg)
  /\ RLe(stats.avg, stats.max)
  /\ stats.min # PosInfinity
  /\ stats.max # NegInfinity
  /\ Len(rs) = 1 => /\ stats.min = rs[1].value
                    /\ stats.max = rs[1].value
                    /\ stats.avg = rs[1].value

\* C11: the stats of every day of a parsed dataset hold the minimum, the
\* maximum and the arithmetic mean of the day's values (min <= avg <= max),
\* none of them the Infinity or -Infinity put there when the bucket was
\* created; a day of one reading v has min = max = avg = v.
C11_StatsOfDay ==
  pc = "grouped" => \A k \in 1..Len(days) : AreStatsOf(days[k].stats, days[k].readings)

(***************************************************************************)
(* C12                                                                     *)
(***************************************************************************)
\* A day that holds nothing but the given readings.
DayOfReadings(rs) ==
  [date |-> "", readings |-> rs, wavetable |-> NullWavetable,
   stats |-> [min |-> Zero, max |-> Zero, avg |-> Zero, timeInRange |-> Zero]]
\* Every day's wavetable after a call is the one made from its readings alone.
AreOfReadingsAlone(ds) ==
  \A k \in 1..Len(ds) : ds[k].wavetable = generateWavetable(DayOfReadings(ds[k].readings))
\* Every day's wavetable is the same in both.
SameWavetables(ds, es) ==
  /\ Len(ds) = Len(es)
  /\ \A k \in 1..Len(ds) : ds[k].wavetable = es[k].wavetable
C12_Step ==
  /\ (pc = "wavetables" /\ pc' = "regenerated")
       => /\ SameWavetables(data'.days, data.days)
          /\ AreOfReadingsAlone(data'.days)
  /\ (pc = "regenerated" /\ pc' = "regenerated") => data' = data

\* C12: the wavetable a call of generateAllWavetables attaches to a day is a
\* function of the day's readings alone, and a further call, on days that
\* hold their wavetables, leaves every wavetable as the first call made it.
C12_RegenerationIsIdempotent == [][C12_Step]_vars

\* Wavetables have been generated again for a day that is not silent.
C12_Witness ==
  /\ pc = "regenerated"
  /\ \E k \in 1..Len(data.days) :
       /\ Len(data.days[k].readings) = 2
       /\ Len(data.days[k].wavetable) = WAVETABLE_SIZE
       /\ data.days[k].wavetable[1] # Zero
       /\ data.days[k].wavetable[1] # NaN

(***************************************************************************)
(* C13                                                                     *)
(***************************************************************************)
\* Everything but the wavetable is the same in both days.
SameButWavetable(d, e) ==
  /\ d.date = e.date
  /\ d.readings = e.readings
  /\ d.stats = e.stats
\* The days with other readings in day j: one more reading a minute after
\* the last, 50 above it, which gives the day another wavetable.
OtherReadings(rs) ==
  Append(rs, [rs[Len(rs)] EXCEPT !.timestamp = @ + 60, !.value = RAdd(@, RInt(50))])
WithOtherReadings(ds, j) ==
  [k \in 1..Len(ds) |-> IF k = j THEN [ds[k] EXCEPT !.readings = OtherReadings(@)] ELSE ds[k]]
\* The wavetable of day k is the same when the call is made on days that
\* differ in the readings of another day.
OtherDaysDoNotMatter(ds, after) ==
  \A k \in 1..Len(ds) : \A j \in (1..Len(ds)) \ {k} :
    generateAllWavetables(WithOtherReadings(ds, j))[k].wavetable = after[k].wavetable
C13_Step ==
  (pc \in {"returned", "wavetables"} /\ pc' \in {"wavetables", "regenerated"})
    => /\ Len(data'.days) = Len(data.days)
       /\ \A k \in 1..Len(data.days) : SameButWavetable(data'.days[k], data.days[k])
       /\ OtherDaysDoNotMatter(data.days, data'.days)

\* C13: a call of generateAllWavetables keeps the days, and of every day
\* the date, the readings in their order and the stats; the wavetable it
\* attaches to a day is the same whatever the readings of the other days.
C13_OnlyWavetableChanges == [][C13_Step]_vars

\* Two days hold wavetables that differ.
C13_Witness ==
  /\ pc = "wavetables"
  /\ \E k, j \in 1..Len(data.days) :
       /\ Len(data.days[k].wavetable) = WAVETABLE_SIZE
       /\ Len(data.days[j].wavetable) = WAVETABLE_SIZE
       /\ data.days[k].wavetable # data.days[j].wavetable

(***************************************************************************)
(* C14                                                                     *)
(***************************************************************************)
\* A magnitude that is a number other than 0.
IsNonZeroNumber(x) == ~isNaN(x) /\ x # Zero
IsAllZero(samples) == \A i \in 1..Len(samples) : samples[i] = Zero

C15_CombineNoneAndOne ==
  fpc = "combined" =>
    /\ Len(statsArray) = 0
         => combined = [min |-> RInt(70), max |-> RInt(180), avg |-> RInt(120),
                        timeInRange |-> RInt(70), volatility |-> RInt(25)]
    /\ Len(statsArray) = 1
         => /\ combined = statsArray[1]
            /\ CombineMany(statsArray) = statsArray[1]

\* One descriptor, that of the day out of range, has been combined.
C15_Witness ==
  /\ fpc = "combined"
  /\ Len(statsArray) = 1
  /\ statsArray[1].max = RInt(310)
  /\ combined.avg = Rat(3811, 20)

(***************************************************************************)
(* C16                                                                     *)
(***************************************************************************)
\* x clamped to the interval from 0 to 1.
Clamped(x) == IF RLe(x, Zero) THEN Zero ELSE IF RLe(One, x) THEN One ELSE x
\* The documented curve of the average: 0 up to 100, 1 from 150 on, a line
\* from (100, 0) to (120, 0.5) and a line from (120, 0.5) to (150, 1).
AverageCurve(v) ==
  IF RLe(v, RInt(100)) THEN Zero
  ELSE IF RLe(RInt(150), v) THEN One
  ELSE IF RLe(v, RInt(120)) THEN RDiv(RSub(v, RInt(100)), RInt(40))
  ELSE RAdd(Rat(1, 2), RDiv(RSub(v, RInt(120)), RInt(60)))
DocumentedCurve(v, type) ==
  CASE type = "volatility" -> Clamped(RDiv(RSub(v, RInt(20)), RInt(20)))
    [] type = "timeInRange" -> Clamped(RDiv(v, RInt(100)))
    [] type = "average" -> AverageCurve(v)
\* From the value half a unit below to this one the result does not fall,
\* and for the average it rises by no more than the steeper line does.
RisesGently(before, after, type) ==
  /\ RLe(before, after)
  /\ type = "average" => RLe(RSub(after, before), Rat(1, 80))

\* C16: normalizeGlucoseStat returns a value in [0, 1] for every input, and
\* follows the documented curves: clamp((v - 20) / 20) for the volatility,
\* clamp(v / 100) for the time in range, and for the average the two lines
\* through 100 -> 0, 120 -> 0.5 and 150 -> 1, continuous and non-decreasing.
C16_NormalizedStat ==
  fpc = "normalized" =>
    /\ RLe(Zero, statResult) /\ RLe(statResult, One)
    /\ statType \in {"volatility", "timeInRange", "average"}
         => /\ statResult = DocumentedCurve(statValue, statType)
            /\ statValue.d # 0
                 => RisesGently(normalizeGlucoseStat(RSub(statValue, Rat(1, 2)), statType),
                                statResult, statType)
    /\ (statType = "average" /\ statValue = RInt(100)) => statResult = Zero
    /\ (statType = "average" /\ statValue = RInt(120)) => statResult = Rat(1, 2)
    /\ (statType = "average" /\ statValue = RInt(150)) => statResult = One

(***************************************************************************)
(* C17                                                                     *)
(***************************************************************************)
\* The sum of the values and the sum of their squares, from the left.
RECURSIVE TotalOfSquares(_)
TotalOfSquares(rs) ==
  IF Len(rs) = 0 THEN Zero
  ELSE RAdd(RMul(rs[1].value, rs[1].value), TotalOfSquares(Tail(rs)))
\* The population variance: the mean of the squares less the square of the
\* mean, both over n.
PopulationVariance(rs) ==
  RSub(RDiv(TotalOfSquares(rs), RInt(Len(rs))),
       RMul(RDiv(TotalOf(rs), RInt(Len(rs))), RDiv(TotalOf(rs), RInt(Len(rs)))))
IsFinite(x) == x.d # 0

\* C17: computeVolatility is 0 for fewer than 2 readings and otherwise the
\* population standard deviation of the values (divisor n); it is finite
\* and not negative, and 0 for readings of one value.
C17_Volatility ==
  fpc = "computed" =>
    /\ Len(volReadings) < 2 => volatility = Zero
    /\ Len(volReadings) >= 2 => RMul(volatility, volatility) = PopulationVariance(volReadings)
    /\ IsFinite(volatility)
    /\ RLe(Zero, volatility)
    /\ (\A i, j \in 1..Len(volReadings) : volReadings[i].value = volReadings[j].value)
         => volatility = Zero

(***************************************************************************)
(* C18                                                                     *)
(***************************************************************************)
\* The number of fields of a line: one more than its commas outside quotes,
\* a comma being outside quotes when the quotes before it are even in number.
QuotePlaces(line) == { j \in 1..Len(line) : Char(line, j) = "\"" }
SeparatorsOf(line, quotes) ==
  { i \in 1..Len(line) :
      Char(line, i) = "," /\ Cardinality({ j \in quotes : j < i }) % 2 = 0 }
FieldCount(line) == 1 + Cardinality(SeparatorsOf(line, QuotePlaces(line)))
\* The places (1-based) of the lines after the header that have as many
\* fields as the header, in increasing order.
PlacesOfCount(fileLines, headerPlace, count) ==
  SortedSeq({ i \in (headerPlace + 1)..Len(fileLines) : FieldCount(fileLines[i]) = count })
AcceptedPlaces(fileLines, headerPlace) ==
  PlacesOfCount(fileLines, headerPlace, FieldCount(fileLines[headerPlace]))
\* rows are the rows of the lines at these places, one for one and in order.
AreRowsOfPlaces(places) ==
  /\ Len(rows) = Len(places)
  /\ \A j \in 1..Len(places) :
       rows[j] = BuildRow(headers, parseCSVLine(lines[places[j]]), 1, << >>)

\* C18: a line after the header becomes a row exactly when it has as many
\* fields (commas outside quotes counted) as the header; every other line,
\* a blank one too, gives no row; and the rows are in the order of their
\* lines.
C18_RowsOfMatchingLines ==
  pc = "rows" => AreRowsOfPlaces(AcceptedPlaces(lines, headerIndex + 1))

\* Under a header of three fields: a row, a blank line that is dropped, and
\* another row.
C18_Witness ==
  /\ pc = "rows"
  /\ Len(headers) = 3
  /\ Len(lines) = 4
  /\ lines[3] = ""
  /\ Len(rows) = 2
  /\ RowGet(rows[2], "Historic Glucose mg/dL") = "120"

(***************************************************************************)
(* C19                                                                     *)
(***************************************************************************)
\* The descriptors of the days of a dataset: the stats of each day with the
\* volatility of its readings (GlucoseStatsWithVolatility).
DescriptorOf(day) ==
  [min |-> day.stats.min, max |-> day.stats.max, avg |-> day.stats.avg,
   timeInRange |-> day.stats.timeInRange,
   volatility |-> computeVolatility(day.readings)]
DescriptorsOf(ds) == [k \in 1..Len(ds) |-> DescriptorOf(ds[k])]
\* A dataset of no day at all: no date, no wavetable, and the neutral
\* descriptor for its days together.
IsDatasetOfNoDay(d) ==
  /\ d.days = << >>
  /\ getAvailableDates(d) = << >>
  /\ combineGlucoseStats(DescriptorsOf(d.days)) = NeutralStats
  /\ NeutralStats = [min |-> RInt(70), max |-> RInt(180), avg |-> RInt(120),
                     timeInRange |-> RInt(70), volatility |-> RInt(25)]
C19_Step ==
  /\ (pc = "readings" /\ pc' = "grouped" /\ readings = << >>) => days' = << >>
  /\ (pc = "grouped" /\ pc' = "returned" /\ readings = << >>) => IsDatasetOfNoDay(data')
  /\ (pc = "returned" /\ pc' = "wavetables" /\ data.days = << >>) => IsDatasetOfNoDay(data')

\* C19: when no reading is accepted (there is no data line, or every row is
\* dropped), the days of the dataset are empty, generateAllWavetables
\* leaves them empty, getAvailableDates gives no date and combineGlucoseStats
\* gives the neutral descriptor {70, 180, 120, 70, 25}.
C19_NoReadingsNoDays == [][C19_Step]_vars

\* generateAllWavetables has run on the dataset of a file whose rows were
\* all dropped (the device name is that of its first row).
C19_Witness ==
  /\ pc = "wavetables"
  /\ data.days = << >>
  /\ data.deviceName = "L3"

(***************************************************************************)
(* C20                                                                     *)
(***************************************************************************)
\* floor(i * length / points) in whole numbers.
StrideIndex(length, count, i) == (i * length) \div count
\* Whether value i of the result is sample k of the wavetable.
IsSampleAt(result, samples, i, k) ==
  /\ 0 <= k
  /\ k < Len(samples)
  /\ result[i + 1] = samples[k + 1]
C20_StepExact ==
  (dpc = "call" /\ dpc' = "done")
    => /\ Len(dispResult') = points
       /\ \A i \in 0..(points - 1) :
            IsSampleAt(dispResult', dispWavetable, i,
                       StrideIndex(Len(dispWavetable), points, i))
       /\ dispWavetable' = dispWavetable

\* C20: getWaveformForDisplay(wavetable, points) returns points values, value
\* i being wavetable[floor(i * length / points)], an index within
\* 0..length-1, and leaves the wavetable as it was.
C20_StrideIsExact == [][C20_StepExact]_vars

\* Whether i * length / points is a whole number.
IsWholeStride(length, count, i) == (i * length) % count = 0
C20_StepWithinOne ==
  (dpc = "call" /\ dpc' = "done")
    => /\ Len(dispResult') = points
       /\ \A i \in 0..(points - 1) :
            \/ IsSampleAt(dispResult', dispWavetable, i,
                          StrideIndex(Len(dispWavetable), points, i))
            \/ /\ IsWholeStride(Len(dispWavetable), points, i)
               /\ IsSampleAt(dispResult', dispWavetable, i,
                             StrideIndex(Len(dispWavetable), points, i) - 1)
       /\ dispWavetable' = dispWavetable

\* C20, amended: for a wavetable of at least one sample and a whole number
\* of points, getWaveformForDisplay returns points values and leaves the
\* wavetable as it was; value i is wavetable[floor(i * length / points)],
\* or the sample before it when i * length / points is a whole number
\* (i * step rounds below it in doubles); every index is within
\* 0..length-1, also when points exceeds the length.
C20_StrideWithinOne == [][C20_StepWithinOne]_vars

\* 98 points of a wavetable of 2 samples: value 49 is sample 0, not sample 1.
C20_Witness ==
  /\ dpc = "done"
  /\ Len(dispWavetable) = 2
  /\ points = 98
  /\ Len(dispResult) = 98
  /\ dispResult[49] = dispWavetable[1]
  /\ dispResult[50] = dispWavetable[1]
  /\ dispResult[51] = dispWavetable[2]

(***************************************************************************)
(* C21                                                                     *)
(***************************************************************************)
\* C21: resampling a source that is not empty keeps the endpoints: the first
\* sample of the result is the first value of the source and its last sample
\* the last value of the source, whatever the two sizes.
C21_EndpointsKept ==
  (rspc = "done" /\ Len(rsValues) > 0 /\ targetSize > 0)
    => /\ rsResult[1] = rsValues[1]
       /\ rsResult[targetSize] = rsValues[Len(rsValues)]

(***************************************************************************)
(* C22                                                                     *)
(***************************************************************************)
NonDecreasing(samples) ==
  \A i \in 1..(Len(samples) - 1) : RLe(samples[i], samples[i + 1])
NonIncreasing(samples) ==
  \A i \in 1..(Len(samples) - 1) : RLe(samples[i + 1], samples[i])
\* Whether every sample of the result lies between two values of the source
\* that no value of the source is below, respectively above.
WithinSourceRange(result, source) ==
  \A k \in 1..Len(result) :
    /\ \E i \in 1..Len(source) :
         /\ \A j \in 1..Len(source) : RLe(source[i], source[j])
         /\ RLe(source[i], result[k])
    /\ \E i \in 1..Len(source) :
         /\ \A j \in 1..Len(source) : RLe(source[j], source[i])
         /\ RLe(result[k], source[i])

\* C22: the result of resampling a non-decreasing source is non-decreasing,
\* that of a non-increasing source non-increasing, and every sample of it
\* lies between the least and the greatest value of the source.
C22_MonotoneAndWithinRange ==
  (rspc = "done" /\ Len(rsValues) > 0)
    => /\ NonDecreasing(rsValues) => NonDecreasing(rsResult)
       /\ NonIncreasing(rsValues) => NonIncreasing(rsResult)
       /\ WithinSourceRange(rsResult, rsValues)

(***************************************************************************)
(* C23: smoothing leaves a constant wavetable unchanged: after the two     *)
(* passes every sample equals the constant.  Each pass computes every new  *)
(* sample as 0.25 of the sample before, 0.5 of the sample itself and 0.25  *)
(* of the sample after, all three as they were before that pass, with      *)
(* index -1 wrapping to the last sample and index N to the first.          *)
(***************************************************************************)
IsConstantWavetable(w) == \A j, k \in 1..Len(w) : w[j] = w[k]
\* The index before k and the index after k on a circle of n, from 1.
CircularBefore(k, n) == IF k = 1 THEN n ELSE k - 1
CircularAfter(k, n) == IF k = n THEN 1 ELSE k + 1
WeightedOfThree(before, itself, after) ==
  RAdd(RAdd(RMul(Rat(1, 4), before), RMul(Rat(1, 2), itself)),
       RMul(Rat(1, 4), after))
C23_Step ==
  /\ smPass' = smPass
       => smWavetable' = smWavetable
  /\ smPass' = smPass + 1
       => /\ Len(smWavetable') = Len(smWavetable)
          /\ \A k \in 1..Len(smWavetable) :
               smWavetable'[k] =
                 WeightedOfThree(
                   smWavetable[CircularBefore(k, Len(smWavetable))],
                   smWavetable[k],
                   smWavetable[CircularAfter(k, Len(smWavetable))])
  /\ smpc' = "done" /\ IsConstantWavetable(smInput)
       => smWavetable' = smInput
C23_SmoothingKeepsConstant == [][C23_Step]_vars
C23_Witness ==
  /\ smpc = "done"
  /\ smPass = DEFAULT_PASSES
  /\ smInput = <<Rat(1, 2), Rat(1, 2), Rat(1, 2)>>
  /\ smWavetable = smInput

(***************************************************************************)
(* C24: for each row the glucose column is the first name of the list      *)
(* (Historic mg/dL, Historic mmol/L, Scan mg/dL, Scan mmol/L, Historic     *)
(* (mg/dL), Historic (mmol/L)) that is a column of the row; the partial    *)
(* match for "historic glucose" or "scan glucose" with a value that is not *)
(* empty is used only when no name of the list is a column; the recordType *)
(* of the Reading is scan exactly when the name of the chosen column       *)
(* contains "scan".                                                        *)
(***************************************************************************)
\* The places of the list whose name is a column of the row.
ListedIn(row) == { i \in 1..Len(GlucoseColumns) : RowHas(row, GlucoseColumns[i]) }
\* Those whose column has a value in the row.
FilledIn(row) == { i \in ListedIn(row) : RowGet(row, GlucoseColumns[i]) # "" }
\* The places of the row whose column has a value and a name that holds
\* "historic glucose" or "scan glucose", in any case of the letters.
PartialIn(row) ==
  { k \in 1..Len(row) :
      /\ row[k].value # ""
      /\ \/ includes(toLowerCase(row[k].key), "historic glucose")
         \/ includes(toLowerCase(row[k].key), "scan glucose") }
\* col is the name at the least of the places hits of names, or null when
\* there is no place.
IsFirstOf(col, names, hits) ==
  IF hits = {} THEN col = << >>
  ELSE \E i \in hits : col = << names[i] >> /\ \A j \in hits : i <= j
\* The recordType of the one reading follows the name of the column.
RecordTypeFollows(col, made) ==
  /\ col = << >> => made = << >>
  /\ made # << >> =>
       /\ Len(made) = 1
       /\ made[1].recordType = 1 <=> includes(toLowerCase(col[1]), "scan")
C24_FirstListedColumn ==
  /\ gcpc \in {"read", "done"} =>
       IF ListedIn(gcRow) # {}
       THEN IsFirstOf(gcCol, GlucoseColumns, ListedIn(gcRow))
       ELSE IsFirstOf(gcCol, RowKeys(gcRow), PartialIn(gcRow))
  /\ gcpc = "done" => RecordTypeFollows(gcCol, gcReadings)
\* C24 as it holds: a name of the list is chosen only when the row has a
\* value in that column, and the partial match is used when no listed
\* column has a value; the partial match takes the first such column of the
\* row.
C24_FirstListedColumnWithValue ==
  /\ gcpc \in {"read", "done"} =>
       IF FilledIn(gcRow) # {}
       THEN IsFirstOf(gcCol, GlucoseColumns, FilledIn(gcRow))
       ELSE IsFirstOf(gcCol, RowKeys(gcRow), PartialIn(gcRow))
  /\ gcpc = "done" => RecordTypeFollows(gcCol, gcReadings)
C24_Witness ==
  /\ gcpc = "done"
  /\ RowGet(gcRow, "Historic Glucose mg/dL") = ""
  /\ RowHas(gcRow, "Historic Glucose mg/dL")
  /\ RowGet(gcRow, "Scan Glucose mg/dL") = "120"
  /\ gcCol = << "Scan Glucose mg/dL" >>
  /\ Len(gcReadings) = 1
  /\ gcReadings[1].recordType = 1

(***************************************************************************)
(* C25: a Reading is filed under the date written in its row.  For a       *)
(* timestamp that matches the pattern, the year, month and day of the day  *)
(* key are the year, month and day that parseTimestamp chose from the      *)
(* groups, when the month is in 1..12 and the day in 1..31; when they are  *)
(* not, the row gives no Reading (parseTimestamp returns null).            *)
(***************************************************************************)
C25_FiledUnderWrittenDate ==
  tspc = "done" /\ TimestampMatch(tsInput).found =>
    IF tsLocals.month + 1 \in 1..12 /\ tsLocals.day \in 1..31
    THEN /\ ~tsResult.isNull
         /\ formatDateKey(tsResult.time) =
              KeyOfCivil([year |-> tsLocals.year, month |-> tsLocals.month + 1,
                          day |-> tsLocals.day])
    ELSE tsResult.isNull

(***************************************************************************)
(* C26: over any sequence of mousedown, mouseup, mouseleave, mouseenter,   *)
(* touchstart and touchend on the keys and calls of clearAllActive, the    *)
(* calls synth.noteOn(note) and synth.noteOff(note) of each note alternate *)
(* strictly, starting with noteOn, and a note is in activeNotes exactly    *)
(* when the latest call the synth got for it was noteOn.                   *)
(***************************************************************************)
\* The calls of a handler for one note.
CallsFor(calls, note) == LET For(c) == c.note = note IN SelectSeq(calls, For)
C26_Step ==
  \A note \in PianoNotes :
    /\ CallsFor(synthCalls', note) # << >> =>
         /\ Len(CallsFor(synthCalls', note)) = 1
         /\ CallsFor(synthCalls', note)[1].op = "noteOn"
              => lastCall[note] \in {"none", "noteOff"}
         /\ CallsFor(synthCalls', note)[1].op = "noteOff"
              => lastCall[note] = "noteOn"
    /\ note \in activeNotes' <=> lastCall'[note] = "noteOn"
C26_NoteCallsAlternate == [][C26_Step]_vars

(***************************************************************************)
(* C27: the selection mode of an oscillator is used up by one selection.   *)
(* The event osc-select-mode with oscIndex k, k = 0 too, sets the mode; a  *)
(* selectDate of a date that is present then calls the callback with       *)
(* oscIndex k, dispatches the one event osc-day-selected {oscIndex: k,     *)
(* date} and leaves the mode null; a selectDate without the mode calls the *)
(* callback with null and dispatches no event.                             *)
(***************************************************************************)
IsPresent(date) == selData # << >> /\ \E k \in 1..Len(selData[1].days) : selData[1].days[k].date = date
C27_Step ==
  /\ \A k \in OscIndexes : OscSelectMode(k) => selectingForOsc' = << k >>
  /\ \A date \in SelectorDates :
       SelectDate(date) /\ IsPresent(date) =>
         /\ onSelectCallback # << >> =>
              /\ Len(callbackCalls') = 1
              /\ callbackCalls'[1].date = date
              /\ callbackCalls'[1].oscIndex = selectingForOsc
         /\ selectingForOsc' = << >>
         /\ IF selectingForOsc # << >>
            THEN dispatched' = << [type |-> "osc-day-selected",
                                   oscIndex |-> selectingForOsc[1], date |-> date] >>
            ELSE dispatched' = << >>
  /\ dispatched' # << >> => selectingForOsc # << >>
C27_ModeUsedOnce == [][C27_Step]_vars
C27_Witness ==
  /\ callbackCalls = << [date |-> "2024-06-01",
                         dayData |-> [NoDay EXCEPT !.date = "2024-06-01"],
                         oscIndex |-> << 0 >>] >>
  /\ dispatched = << [type |-> "osc-day-selected", oscIndex |-> 0,
                      date |-> "2024-06-01"] >>
  /\ selectingForOsc = << >>
  /\ ~selectingClass

(***************************************************************************)
(* C28: after any setData, selectDate or clear, getSelectedDate() is null  *)
(* or a key of the days of the data that is loaded; a selectDate of a date *)
(* that is absent, or with no data loaded, changes nothing and calls no    *)
(* callback; a setData with days selects the latest date.                  *)
(***************************************************************************)
IsLatestOf(date, ds) ==
  /\ \E k \in 1..Len(ds) : ds[k].date = date
  /\ \A k \in 1..Len(ds) : ds[k].date = date \/ StringBefore(ds[k].date, date, 1)
C28_Step ==
  /\ selectedDate' = << >>
       \/ /\ selData' # << >>
          /\ \E k \in 1..Len(selData'[1].days) :
               selData'[1].days[k].date = selectedDate'[1]
  /\ \A date \in SelectorDates :
       SelectDate(date) /\ ~IsPresent(date) =>
         /\ callbackCalls' = << >>
         /\ UNCHANGED <<selData, selectedDate, onSelectCallback, selectingForOsc,
                        selectingClass, dayItems, selectedItems>>
  /\ \A newData \in SelectorDatasets :
       SetData(newData) /\ Len(newData.days) > 0 =>
         /\ selectedDate' # << >>
         /\ IsLatestOf(selectedDate'[1], newData.days)
C28_SelectedDateIsLoaded == [][C28_Step]_vars

(***************************************************************************)
(* C29: for any interleaving of startPlayhead, stopPlayhead and callbacks  *)
(* of animation frames, at most one playhead loop runs (while the display  *)
(* is playing at most one request of a frame is pending); once             *)
(* stopPlayhead has run, playheadPosition is 0 and no callback that is     *)
(* still pending advances the playhead or draws.                           *)
(***************************************************************************)
C29_Step ==
  /\ isPlaying' => Cardinality(pendingFrames') <= 1
  /\ ~isPlaying' => playheadPosition' = 0
  /\ \A frame \in pendingFrames :
       ~isPlaying /\ FrameCallback(frame) =>
         /\ drawn' = << >>
         /\ playheadPosition' = playheadPosition
C29_OnePlayheadLoop == [][C29_Step]_vars

(***************************************************************************)
(* C30: when a dragged effect D is dropped on the module of another effect *)
(* T, the order passed to reorder holds the effects of the current order,  *)
(* each once, with D just before T if the drop is on the left half of T    *)
(* and just after T if not, and the other effects in the order they had; a *)
(* drop with no drag under way, or on the module of D itself, calls        *)
(* reorder zero times.                                                     *)
(***************************************************************************)
PlaceIn(order, id) == CHOOSE k \in 1..Len(order) : order[k] = id
IsPermutationOf(newOrder, order) ==
  /\ Len(newOrder) = Len(order)
  /\ \A id \in EffectIds :
       Cardinality({ k \in 1..Len(newOrder) : newOrder[k] = id })
         = Cardinality({ k \in 1..Len(order) : order[k] = id })
KeepsOthersInOrder(newOrder, order, moved) ==
  \A a, b \in EffectIds \ {moved} :
    a # b => (PlaceIn(newOrder, a) < PlaceIn(newOrder, b)
                <=> PlaceIn(order, a) < PlaceIn(order, b))
C30_Step ==
  \A target \in EffectIds : \A onLeftHalf \in BOOLEAN :
    Drop(target, onLeftHalf) =>
      IF draggedEffect = << >> \/ draggedEffect = << target >>
      THEN reorderCalls' = << >>
      ELSE /\ Len(reorderCalls') = 1
           /\ IsPermutationOf(reorderCalls'[1], fxOrder)
           /\ PlaceIn(reorderCalls'[1], draggedEffect[1])
                = PlaceIn(reorderCalls'[1], target) + (IF onLeftHalf THEN -1 ELSE 1)
           /\ KeepsOthersInOrder(reorderCalls'[1], fxOrder, draggedEffect[1])
C30_DropReorders == [][C30_Step]_vars
C30_Witness ==
  /\ draggedEffect = << "compressor" >>
  /\ reorderCalls = << fxOrder >>
  /\ fxOrder[1] = "eq3"
  /\ fxOrder[Len(fxOrder) - 1] = "bitcrusher"
  /\ fxOrder[Len(fxOrder)] = "compressor"

=============================================================================
